---- MODULE Spec2Model ----
(***************************************************************************)
(* KlipperFleet: the Kconfig session manager (backend/kconfig_manager.py), *)
(* the device registry (backend/fleet_manager.py) and the firmware build   *)
(* (backend/build_manager.py).  The three share no state; each has its own *)
(* variables and its own specifications.                                   *)
(*                                                                         *)
(* A session (KconfigManager) owns at most one loaded symbol graph.  The   *)
(* graph engine (kconfiglib) is external to the repository; the operators  *)
(* of the section "engine" state the behaviour of the engine calls the     *)
(* manager makes (visibility, tri_value, str_value, set_value,             *)
(* write_config, load_config) for symbols of type bool, int and string.    *)
(*                                                                         *)
(* Strings are sequences of tokens, so that the prefix and substring tests *)
(* of the code (startswith, in) are computed and not assumed.  The tokens  *)
(* "WANT_", "CONFIG_", "__choice_", "__node_", "Optional features", the    *)
(* double quote, the backslash and the line break are always split off as  *)
(* tokens of their own.  An optional value (None or a value) is a         *)
(* sequence of length 0 or 1.  Tri-state ordinals are 0 (n) and 2 (y); no  *)
(* symbol is tristate.                                                     *)
(***************************************************************************)
EXTENDS Integers, Sequences, FiniteSets, TLC

VARIABLES
    kconf,      \* kconf[s]: <<>> (None) or <<k>>, k the loaded graph's values
    lock,       \* lock[s]: self._kconfig_lock is held
    environ,    \* os.environ: [SRCTREE, srctree], "" when unset
    cwd,        \* the process working directory
    fs,         \* fs[d]: what exists in klipper directory d
    files,      \* files[p]: <<>> (absent) or <<lines>>, the profile files
                \* (a path of Directories exists and holds no lines)
    pc,         \* pc[s]: where the caller of session s stands
    call,       \* call[s]: the entry point being executed and its arguments
    old_cwd,    \* old_cwd[s]: the local of _load_kconfig_sync
    ret,        \* ret[s]: how the last call on s ended
    entry,      \* entry[s]: cwd, environ, kconf[s] # None and whether the
                \* sub-definition file existed, when the call began; graph
                \* is kconf[s] as load_kconfig found it, while that call runs
    nops,       \* nops[s]: number of calls made on s so far
    \* backend/fleet_manager.py: one FleetManager and the threads that call it
    fleet_file, \* the list of devices fleet.json holds
    fleet_lock, \* self._lock is held
    fleet_pc,   \* fleet_pc[t]: "idle", or "locked" once t holds the lock and
                \* has read the file
    fleet_call, \* fleet_call[t]: the method thread t is in and its arguments
    fleet,      \* fleet[t]: the local list the method of t has read
    fleet_ops,  \* number of calls made on the FleetManager so far
    \* backend/build_manager.py: one BuildManager and its run_build tasks
    tmp_config, \* <klipper_dir>/.config: None, or the profile copied there
    out,        \* <klipper_dir>/out/klipper.bin: None, or the profile whose
                \* configuration the compile that wrote it used
    artifacts,  \* artifacts[p]: <artifacts_dir>/p.bin, None or as out
    last_build_info,  \* last_build_info[p]: None, or the build info stored
                \* under p: the profile whose run_build stored it and the
                \* configuration the compile it reports used
    build_pc,   \* build_pc[b]: the await point run_build task b stands at
    profile_name,  \* profile_name[b]: the profile task b builds
    compiled,   \* compiled[b]: None, or the configuration the make process
                \* of task b used
    build_ops   \* number of run_build calls made so far

kconfigVars == <<kconf, lock, environ, cwd, fs, files, pc, call, old_cwd, ret, entry, nops>>
fleetVars == <<fleet_file, fleet_lock, fleet_pc, fleet_call, fleet, fleet_ops>>
buildVars == <<tmp_config, out, artifacts, last_build_info, build_pc, profile_name,
               compiled, build_ops>>
vars == <<kconfigVars, fleetVars, buildVars>>

None == <<>>
Some(x) == <<x>>

(***************************************************************************)
(* Bounds.                                                                 *)
(***************************************************************************)
MaxOps == 3

(***************************************************************************)
(* The definition file. Every klipper directory of the model holds this    *)
(* src/Kconfig (line numbers on the left):                                 *)
(*                                                                         *)
(*   1 mainmenu "Klipper Configuration"                                    *)
(*   2 config LOW_LEVEL_OPTIONS                                            *)
(*   3     bool "Enable extra low-level configuration options"             *)
(*   4 choice                                                              *)
(*   5     prompt "Micro-controller Architecture"                          *)
(*   6     config MACH_STM32                                               *)
(*   7         bool "STMicroelectronics STM32"                             *)
(*   8     config MACH_AVR                                                 *)
(*   9         bool "Atmega AVR"                                           *)
(*  10         depends on LOW_LEVEL_OPTIONS                                *)
(*  11 endchoice                                                           *)
(*  12 config HAVE_LIMITED_CODE_SIZE                                       *)
(*  13     bool                                                            *)
(*  14     default y if MACH_AVR                                           *)
(*  15 config MCU                                                          *)
(*  16     string "Micro-controller name"                                  *)
(*  17     default "stm32"                                                 *)
(*  18 menu "Communication interface"                                      *)
(*  19 config CANBUS_INTERFACE                                             *)
(*  20     bool "CAN bus interface"                                        *)
(*  21     depends on LOW_LEVEL_OPTIONS                                    *)
(*  22     select CANSERIAL                                                *)
(*  23 config CANBUS_SPEED                                                 *)
(*  24     int "CAN bus speed"                                             *)
(*  25     depends on CANBUS_INTERFACE                                     *)
(*  26     default 1000000                                                 *)
(*  27 config WANT_CANBUS_BRIDGE                                           *)
(*  28     bool "USB to CAN bus bridge"                                    *)
(*  29     depends on CANBUS_INTERFACE                                     *)
(*  30 config CANSERIAL                                                    *)
(*  31     bool "Use CAN for communication"                                *)
(*  32 endmenu                                                             *)
(*  33 menu "Optional features (to reduce code size)"                      *)
(*  34     depends on HAVE_LIMITED_CODE_SIZE                               *)
(*  35 config WANT_DISPLAYS                                                *)
(*  36     bool "Support LCD devices"                                      *)
(*  37     default y                                                       *)
(*  38 endmenu                                                             *)
(*  39 comment "Build for AVR"                                             *)
(*  40     depends on MACH_AVR                                             *)
(*  41 config WANT_DISPLAYS                                                *)
(*  42     default y                                                       *)
(*  43 config MCU                                                          *)
(*  44     string "AVR micro-controller name"                              *)
(*  45     depends on MACH_AVR                                             *)
(*  46 choice BOOTLOADER                                                   *)
(*  47     prompt "Bootloader offset"                                      *)
(*  48     depends on LOW_LEVEL_OPTIONS                                    *)
(*  49     config BOOT_NONE                                                *)
(*  50         bool "No bootloader"                                        *)
(*  51         depends on MACH_AVR                                         *)
(*  52 endchoice                                                           *)
(*  53 source "src/extras/Kconfig"     (only in a tree with fs.sources)    *)
(*                                                                         *)
(* An expression is a set of atoms, read as their conjunction; an atom is  *)
(* a symbol or a choice (the mode of the choice, which the engine adds to  *)
(* the dependencies of the choice's members).                              *)
(***************************************************************************)
LLO == <<"LOW_LEVEL_OPTIONS">>
HLCS == <<"HAVE_LIMITED_CODE_SIZE">>
STM32 == <<"MACH_STM32">>
AVR == <<"MACH_AVR">>
MCU == <<"MCU">>
CANIF == <<"CANBUS_INTERFACE">>
CANSPEED == <<"CANBUS_SPEED">>
CANSERIAL == <<"CANSERIAL">>
WANTDISP == <<"WANT_", "DISPLAYS">>
WANTBRIDGE == <<"WANT_", "CANBUS_BRIDGE">>
BOOTNONE == <<"BOOT_NONE">>
BOOTLOADER == <<"BOOTLOADER">>

Y == <<"y">>
N == <<"n">>
QUOTE == "\""
BSLASH == "\\"
NL == "\n"

SymAtom(n) == [t |-> "sym", n |-> n]
ChoiceAtom(c) == [t |-> "choice", n |-> c]

\* kconf.syms: per symbol its type, defaults (value, condition), the
\* conditions under which it is selected (rev_dep, a disjunction), its
\* owning choice and its menu nodes.
Syms ==
    LLO :> [type |-> "bool", defaults |-> <<>>, rev_dep |-> {},
            choice |-> None, nodes |-> <<1>>]
 @@ STM32 :> [type |-> "bool", defaults |-> <<>>, rev_dep |-> {},
            choice |-> Some("arch"), nodes |-> <<3>>]
 @@ AVR :> [type |-> "bool", defaults |-> <<>>, rev_dep |-> {},
            choice |-> Some("arch"), nodes |-> <<4>>]
 @@ HLCS :> [type |-> "bool",
            defaults |-> <<[val |-> Y, cond |-> {SymAtom(AVR)}]>>,
            rev_dep |-> {}, choice |-> None, nodes |-> <<5>>]
 @@ MCU :> [type |-> "string",
            defaults |-> <<[val |-> <<"stm32">>, cond |-> {}]>>,
            rev_dep |-> {}, choice |-> None, nodes |-> <<6, 16>>]
 @@ CANIF :> [type |-> "bool", defaults |-> <<>>, rev_dep |-> {},
            choice |-> None, nodes |-> <<8>>]
 @@ CANSPEED :> [type |-> "int",
            defaults |-> <<[val |-> <<"1000000">>,
                            cond |-> {SymAtom(CANIF), SymAtom(LLO)}]>>,
            rev_dep |-> {}, choice |-> None, nodes |-> <<9>>]
 @@ WANTBRIDGE :> [type |-> "bool", defaults |-> <<>>, rev_dep |-> {},
            choice |-> None, nodes |-> <<14>>]
 @@ CANSERIAL :> [type |-> "bool", defaults |-> <<>>,
            rev_dep |-> {{SymAtom(CANIF), SymAtom(LLO)}},
            choice |-> None, nodes |-> <<10>>]
 @@ WANTDISP :> [type |-> "bool",
            defaults |-> <<[val |-> Y, cond |-> {SymAtom(HLCS)}],
                           [val |-> Y, cond |-> {}]>>,
            rev_dep |-> {}, choice |-> None, nodes |-> <<12, 15>>]
 @@ BOOTNONE :> [type |-> "bool", defaults |-> <<>>, rev_dep |-> {},
            choice |-> Some("boot"), nodes |-> <<18>>]

SymNames == DOMAIN Syms

\* The choices: name (empty for an anonymous choice), members in order,
\* menu nodes.  kconf.named_choices holds the choices with a name.
Choices ==
    "arch" :> [name |-> <<>>, syms |-> <<STM32, AVR>>, nodes |-> <<2>>]
 @@ "boot" :> [name |-> BOOTLOADER, syms |-> <<BOOTNONE>>, nodes |-> <<17>>]

ChoiceIds == DOMAIN Choices

NamedChoices == {Choices[c].name : c \in {x \in ChoiceIds : Choices[x].name # <<>>}}

\* The menu nodes. node 0 is kconf.top_node; list is the chain of children
\* (node.list followed by .next); item is the kind of node.item, sym the
\* name of the symbol and ch the choice it holds; prompt is None or
\* (text, condition) and dep the node's dependencies, both with the
\* parents' dependencies added as the engine does when it finalizes the
\* tree (a symbol that depends on the symbol before it becomes its child).
Prompt(text, cond) == Some([text |-> text, cond |-> cond])

Nodes ==
    0 :> [item |-> "menu", sym |-> <<>>, ch |-> "", linenr |-> 1,
          prompt |-> Prompt(<<"Klipper Configuration">>, {}), dep |-> {},
          list |-> <<1, 2, 5, 6, 7, 11, 13, 15, 16, 17>>]
 @@ 1 :> [item |-> "symbol", sym |-> LLO, ch |-> "", linenr |-> 2,
          prompt |-> Prompt(<<"Enable extra low-level configuration options">>, {}),
          dep |-> {}, list |-> <<>>]
 @@ 2 :> [item |-> "choice", sym |-> <<>>, ch |-> "arch", linenr |-> 4,
          prompt |-> Prompt(<<"Micro-controller Architecture">>, {}),
          dep |-> {}, list |-> <<3, 4>>]
 @@ 3 :> [item |-> "symbol", sym |-> STM32, ch |-> "", linenr |-> 6,
          prompt |-> Prompt(<<"STMicroelectronics STM32">>, {ChoiceAtom("arch")}),
          dep |-> {ChoiceAtom("arch")}, list |-> <<>>]
 @@ 4 :> [item |-> "symbol", sym |-> AVR, ch |-> "", linenr |-> 8,
          prompt |-> Prompt(<<"Atmega AVR">>, {ChoiceAtom("arch"), SymAtom(LLO)}),
          dep |-> {ChoiceAtom("arch"), SymAtom(LLO)}, list |-> <<>>]
 @@ 5 :> [item |-> "symbol", sym |-> HLCS, ch |-> "", linenr |-> 12,
          prompt |-> None, dep |-> {}, list |-> <<>>]
 @@ 6 :> [item |-> "symbol", sym |-> MCU, ch |-> "", linenr |-> 15,
          prompt |-> Prompt(<<"Micro-controller name">>, {}),
          dep |-> {}, list |-> <<>>]
 @@ 7 :> [item |-> "menu", sym |-> <<>>, ch |-> "", linenr |-> 18,
          prompt |-> Prompt(<<"Communication interface">>, {}),
          dep |-> {}, list |-> <<8, 10>>]
 @@ 8 :> [item |-> "symbol", sym |-> CANIF, ch |-> "", linenr |-> 19,
          prompt |-> Prompt(<<"CAN bus interface">>, {SymAtom(LLO)}),
          dep |-> {SymAtom(LLO)}, list |-> <<9, 14>>]
 @@ 9 :> [item |-> "symbol", sym |-> CANSPEED, ch |-> "", linenr |-> 23,
          prompt |-> Prompt(<<"CAN bus speed">>, {SymAtom(CANIF), SymAtom(LLO)}),
          dep |-> {SymAtom(CANIF), SymAtom(LLO)}, list |-> <<>>]
 @@ 14 :> [item |-> "symbol", sym |-> WANTBRIDGE, ch |-> "", linenr |-> 27,
          prompt |-> Prompt(<<"USB to CAN bus bridge">>,
                            {SymAtom(CANIF), SymAtom(LLO)}),
          dep |-> {SymAtom(CANIF), SymAtom(LLO)}, list |-> <<>>]
 @@ 10 :> [item |-> "symbol", sym |-> CANSERIAL, ch |-> "", linenr |-> 30,
          prompt |-> Prompt(<<"Use CAN for communication">>, {}),
          dep |-> {}, list |-> <<>>]
 @@ 11 :> [item |-> "menu", sym |-> <<>>, ch |-> "", linenr |-> 33,
          prompt |-> Prompt(<<"Optional features", " (to reduce code size)">>,
                            {SymAtom(HLCS)}),
          dep |-> {SymAtom(HLCS)}, list |-> <<12>>]
 @@ 12 :> [item |-> "symbol", sym |-> WANTDISP, ch |-> "", linenr |-> 35,
          prompt |-> Prompt(<<"Support LCD devices">>, {SymAtom(HLCS)}),
          dep |-> {SymAtom(HLCS)}, list |-> <<>>]
 @@ 13 :> [item |-> "comment", sym |-> <<>>, ch |-> "", linenr |-> 39,
          prompt |-> Prompt(<<"Build for AVR">>, {SymAtom(AVR)}),
          dep |-> {SymAtom(AVR)}, list |-> <<>>]
 @@ 15 :> [item |-> "symbol", sym |-> WANTDISP, ch |-> "", linenr |-> 41,
          prompt |-> None, dep |-> {}, list |-> <<>>]
 @@ 16 :> [item |-> "symbol", sym |-> MCU, ch |-> "", linenr |-> 43,
          prompt |-> Prompt(<<"AVR micro-controller name">>, {SymAtom(AVR)}),
          dep |-> {SymAtom(AVR)}, list |-> <<>>]
 @@ 17 :> [item |-> "choice", sym |-> <<>>, ch |-> "boot", linenr |-> 46,
          prompt |-> Prompt(<<"Bootloader offset">>, {SymAtom(LLO)}),
          dep |-> {SymAtom(LLO)}, list |-> <<18>>]
 @@ 18 :> [item |-> "symbol", sym |-> BOOTNONE, ch |-> "", linenr |-> 49,
          prompt |-> Prompt(<<"No bootloader">>,
                            {ChoiceAtom("boot"), SymAtom(LLO), SymAtom(AVR)}),
          dep |-> {ChoiceAtom("boot"), SymAtom(LLO), SymAtom(AVR)}, list |-> <<>>]

NodeIds == DOMAIN Nodes

(***************************************************************************)
(* Engine: the value of a loaded graph.  k is the record of what the user  *)
(* (or a profile) has assigned: user[n] the symbol's user_value, usel[c]   *)
(* the choice's user_selection, cmode[c] the choice's user_value; root is  *)
(* the directory of the parsed definition and inc the directory its        *)
(* relative "source" lines were resolved in.                               *)
(***************************************************************************)
Min(a, b) == IF a < b THEN a ELSE b
Max(a, b) == IF a < b THEN b ELSE a

StrToTri(v) == IF v = Y THEN 2 ELSE 0
TriToStr(t) == IF t = 2 THEN Y ELSE N

BoolStrs == {N, Y}

\* Tokens that int(s, 10) parses.
DigitTokens == {"1000000", "5000000", "9000000"}
IsBaseN(v) == Len(v) > 0 /\ \A i \in 1..Len(v) : v[i] \in DigitTokens

\* The element of lowest index among the indices on, None if on is empty.
FirstOf(seq, on) ==
    IF on = {} THEN None ELSE Some(seq[CHOOSE i \in on : \A j \in on : i <= j])

\* The value an optional value holds, else the fallback.
OrElse(opt, fallback) == IF opt # None THEN opt[1] ELSE fallback

RECURSIVE ExprValue(_, _), TriValue(_, _), SymVisibility(_, _)
RECURSIVE ChoiceVisibility(_, _), ChoiceTriValue(_, _)

AtomValue(k, a) ==
    IF a.t = "sym" THEN TriValue(k, a.n) ELSE ChoiceTriValue(k, a.n)

\* kconfiglib.expr_value
ExprValue(k, e) == IF \A a \in e : AtomValue(k, a) = 2 THEN 2 ELSE 0

\* The maximum of the prompt conditions over the nodes that have a prompt.
PromptVisibility(k, nodes) ==
    IF \E i \in 1..Len(nodes) :
          /\ Nodes[nodes[i]].prompt # None
          /\ ExprValue(k, Nodes[nodes[i]].prompt[1].cond) = 2
    THEN 2 ELSE 0

\* Symbol.visibility
SymVisibility(k, n) == PromptVisibility(k, Syms[n].nodes)

\* Choice.visibility
ChoiceVisibility(k, c) == PromptVisibility(k, Choices[c].nodes)

\* Choice.tri_value: the mode of a choice that is not optional is at least
\* m, limited by its visibility, and m is promoted to y for a bool choice.
ChoiceTriValue(k, c) ==
    LET base == IF k.cmode[c] # None THEN Max(1, k.cmode[c][1]) ELSE 1
        val == Min(base, ChoiceVisibility(k, c))
    IN IF val = 1 THEN 2 ELSE val

\* Choice.selection: the user selection if it is visible, otherwise the
\* first visible member (no choice of the definition declares a default).
ChoiceSelection(k, c) ==
    IF ChoiceTriValue(k, c) # 2 THEN None
    ELSE IF k.usel[c] # None /\ SymVisibility(k, k.usel[c][1]) > 0 THEN k.usel[c]
    ELSE FirstOf(Choices[c].syms,
                 {i \in 1..Len(Choices[c].syms) :
                     SymVisibility(k, Choices[c].syms[i]) > 0})

\* The first default whose condition holds, None if there is none.
ActiveDefault(k, n) ==
    LET first == FirstOf(Syms[n].defaults,
                         {i \in 1..Len(Syms[n].defaults) :
                             ExprValue(k, Syms[n].defaults[i].cond) = 2})
    IN IF first = None THEN None ELSE Some(first[1].val)

\* expr_value(sym.rev_dep)
RevDepValue(k, n) ==
    IF \E e \in Syms[n].rev_dep : ExprValue(k, e) = 2 THEN 2 ELSE 0

\* Symbol.tri_value of a bool symbol whose visibility is vis.
BoolValue(k, n, vis) ==
    IF Syms[n].choice = None
    THEN Max(RevDepValue(k, n),
             IF vis > 0 /\ k.user[n] # None
             THEN Min(k.user[n][1], vis)
             ELSE StrToTri(OrElse(ActiveDefault(k, n), N)))
    ELSE IF vis = 2 /\ ChoiceSelection(k, Syms[n].choice[1]) = Some(n)
         THEN 2 ELSE 0

\* Symbol.tri_value
TriValue(k, n) ==
    IF Syms[n].type # "bool" THEN 0 ELSE BoolValue(k, n, SymVisibility(k, n))

\* Symbol.str_value
StrValue(k, n) ==
    IF Syms[n].type = "bool" THEN TriToStr(TriValue(k, n))
    ELSE LET vis == SymVisibility(k, n)
             hasUser == IF Syms[n].type = "int"
                        THEN k.user[n] # None /\ k.user[n] # Some(<<>>)
                        ELSE k.user[n] # None
         IN IF vis > 0 /\ hasUser THEN k.user[n][1]
            ELSE OrElse(ActiveDefault(k, n), <<>>)

\* Symbol._write_to_conf, as str_value and tri_value leave it.
WriteToConf(k, n) ==
    \/ SymVisibility(k, n) > 0
    \/ IF Syms[n].type = "bool"
       THEN \/ Syms[n].choice = None /\ TriValue(k, n) = 2
       ELSE ActiveDefault(k, n) # None

\* Symbol.set_value with a tri-state ordinal or an already checked string:
\* the user value is stored whatever the visibility; y on a member of a
\* choice also makes it the user selection of the choice.
StoreUserValue(k, n, val) ==
    IF Syms[n].choice # None /\ val = 2
    THEN [k EXCEPT !.user[n] = Some(val), !.usel[Syms[n].choice[1]] = Some(n)]
    ELSE [k EXCEPT !.user[n] = Some(val)]

\* Symbol.set_value(value) for a string argument: "n" and "y" become
\* ordinals for a bool; a value that is malformed for the type is refused
\* (the call returns False and stores nothing).
SymSetValue(k, n, value) ==
    CASE Syms[n].type = "bool" ->
            IF value \in BoolStrs THEN StoreUserValue(k, n, StrToTri(value)) ELSE k
      [] Syms[n].type = "int" ->
            IF IsBaseN(value) THEN StoreUserValue(k, n, value) ELSE k
      [] OTHER -> StoreUserValue(k, n, value)

\* kconfiglib.escape and unescape: a backslash before every quote and
\* backslash, and back.
RECURSIVE Escape(_), Unescape(_)
Escape(v) ==
    IF v = <<>> THEN <<>>
    ELSE (IF Head(v) \in {QUOTE, BSLASH} THEN <<BSLASH, Head(v)>> ELSE <<Head(v)>>)
         \o Escape(Tail(v))

Unescape(v) ==
    IF v = <<>> THEN <<>>
    ELSE IF Head(v) = BSLASH /\ Len(v) > 1 THEN <<v[2]>> \o Unescape(Tail(Tail(v)))
    ELSE <<Head(v)>> \o Unescape(Tail(v))

\* The longest prefix of v that the pattern (?:[^\\"]|\\.)* matches.
RECURSIVE StringBody(_)
StringBody(v) ==
    IF v = <<>> \/ Head(v) = QUOTE THEN <<>>
    ELSE IF Head(v) = BSLASH
         THEN IF Len(v) > 1 THEN <<v[1], v[2]>> \o StringBody(Tail(Tail(v))) ELSE <<>>
         ELSE <<Head(v)>> \o StringBody(Tail(v))

\* What follows the opening quote of val is a string literal and its
\* closing quote: the pattern "((?:[^\\"]|\\.)*)" matches.
IsStringLiteral(val) ==
    /\ val # <<>> /\ Head(val) = QUOTE
    /\ Len(StringBody(Tail(val))) < Len(Tail(val))
    /\ Tail(val)[Len(StringBody(Tail(val))) + 1] = QUOTE

\* The lines of a text: the text cut at its line breaks.
RECURSIVE TextLines(_, _)
TextLines(v, line) ==
    IF v = <<>> THEN <<line>>
    ELSE IF Head(v) = NL THEN <<line>> \o TextLines(Tail(v), <<>>)
    ELSE TextLines(Tail(v), Append(line, Head(v)))

\* A line of a profile: "CONFIG_<name>=<val>" (kind "set"),
\* "# CONFIG_<name> is not set" (kind "unset"), or any other text (kind
\* "other", no key).
ConfigKey(n) == <<"CONFIG_">> \o n

\* The lines of a string symbol whose quoted text is cut into the lines
\* text: the assignment, then what follows each line break.
ConfigStringLines(n, text) ==
    <<[kind |-> "set", key |-> ConfigKey(n), val |-> text[1]]>>
    \o [i \in 1..(Len(text) - 1) |->
           [kind |-> "other", key |-> <<>>, val |-> text[i + 1]]]

\* The lines of a written symbol with value val.
ConfigText(n, val) ==
    CASE Syms[n].type = "bool" ->
            IF val # N
            THEN <<[kind |-> "set", key |-> ConfigKey(n), val |-> val]>>
            ELSE <<[kind |-> "unset", key |-> ConfigKey(n), val |-> <<>>]>>
      [] Syms[n].type = "int" ->
            <<[kind |-> "set", key |-> ConfigKey(n), val |-> val]>>
      [] OTHER ->
            ConfigStringLines(n, TextLines(<<QUOTE>> \o Escape(val) \o <<QUOTE>>,
                                           <<>>))

\* Symbol.config_string
ConfigString(k, n) ==
    IF ~WriteToConf(k, n) THEN <<>> ELSE ConfigText(n, StrValue(k, n))

\* The symbols in the order of their first menu node.
FirstNode(n) == Syms[n].nodes[1]

RECURSIVE SymsInOrder(_)
SymsInOrder(left) ==
    IF left = {} THEN <<>>
    ELSE LET n == CHOOSE x \in left : \A y \in left : FirstNode(x) <= FirstNode(y)
         IN <<n>> \o SymsInOrder(left \ {n})

\* Kconfig.write_config: one line per written symbol, in menu order.
RECURSIVE ConfigLines(_, _)
ConfigLines(k, order) ==
    IF order = <<>> THEN <<>>
    ELSE ConfigString(k, Head(order)) \o ConfigLines(k, Tail(order))

SymOrder == SymsInOrder(SymNames)

WriteConfig(k) == ConfigLines(k, SymOrder)

\* The values of a freshly parsed graph.
FreshValues(root, inc) ==
    [root |-> root, inc |-> inc,
     user |-> [n \in SymNames |-> None],
     usel |-> [c \in ChoiceIds |-> None],
     cmode |-> [c \in ChoiceIds |-> None]]

\* One line of Kconfig.load_config.
LoadLine(k, line) ==
    IF line.key = <<>> \/ Head(line.key) # "CONFIG_" \/ Tail(line.key) \notin SymNames
    THEN k
    ELSE LET n == Tail(line.key) IN
         IF line.kind = "unset"
         THEN IF Syms[n].type = "bool" THEN SymSetValue(k, n, N) ELSE k
         ELSE CASE Syms[n].type = "bool" ->
                     IF line.val # <<>> /\ <<Head(line.val)>> \in BoolStrs
                     THEN LET v == <<Head(line.val)>>
                              k1 == IF Syms[n].choice # None /\ v # N
                                    THEN [k EXCEPT !.cmode[Syms[n].choice[1]] =
                                                       Some(StrToTri(v))]
                                    ELSE k
                          IN SymSetValue(k1, n, v)
                     ELSE k
                [] Syms[n].type = "string" ->
                     IF IsStringLiteral(line.val)
                     THEN SymSetValue(k, n, Unescape(StringBody(Tail(line.val))))
                     ELSE k
                [] OTHER -> SymSetValue(k, n, line.val)

\* Kconfig.load_config(path) with replace=True: every user value the file
\* does not set is unset, the lines are applied in order.
RECURSIVE LoadLines(_, _)
LoadLines(k, lines) ==
    IF lines = <<>> THEN k ELSE LoadLines(LoadLine(k, Head(lines)), Tail(lines))

LoadConfig(k, lines) == LoadLines(FreshValues(k.root, k.inc), lines)

(***************************************************************************)
(* KconfigManager: projection of the graph (get_menu_tree).                *)
(***************************************************************************)
StartsWith(name, tok) == name # <<>> /\ Head(name) = tok
Contains(name, tok) == \E i \in 1..Len(name) : name[i] = tok

IsSymOrChoice(node) == Nodes[node].item \in {"symbol", "choice"}

\* sym.name of the node's item: the symbol's name, the choice's name.
ItemName(node) ==
    IF Nodes[node].item = "symbol" THEN Nodes[node].sym
    ELSE Choices[Nodes[node].ch].name

\* sym.visibility of the node's item.
ItemVisibility(k, node) ==
    IF Nodes[node].item = "symbol" THEN SymVisibility(k, Nodes[node].sym)
    ELSE ChoiceVisibility(k, Nodes[node].ch)

\* is_want_sym that does not ask for show_optional.
IsWantSym_IgnoresShowOptional(node, show_optional) ==
    /\ ItemName(node) # <<>>
    /\ \/ StartsWith(ItemName(node), "WANT_")
       \/ (StartsWith(ItemName(node), "CONFIG_") /\ Len(ItemName(node)) > 1
           /\ ItemName(node)[2] = "WANT_")

\* is_want_sym
IsWantSym(node, show_optional) ==
    /\ show_optional
    /\ ItemName(node) # <<>>
    /\ \/ StartsWith(ItemName(node), "WANT_")
       \/ (StartsWith(ItemName(node), "CONFIG_") /\ Len(ItemName(node)) > 1
           /\ ItemName(node)[2] = "WANT_")

\* is_optional_menu that never holds: no override for menus.
IsOptionalMenu_Never(node, show_optional) == FALSE

\* is_optional_menu
IsOptionalMenu(node, show_optional) ==
    show_optional /\ Contains(Nodes[node].prompt[1].text, "Optional features")

\* The name an entry is given.
EntryName(node) ==
    IF Nodes[node].item = "choice" /\ ItemName(node) = <<>>
    THEN <<"__choice_">> \o Nodes[node].prompt[1].text
                         \o <<"_", ToString(Nodes[node].linenr)>>
    ELSE IF ItemName(node) # <<>> THEN ItemName(node)
    ELSE <<"__node_">> \o Nodes[node].prompt[1].text
                       \o <<"_", ToString(Nodes[node].linenr)>>

\* visible_choices: the members whose visibility is positive.
RECURSIVE VisibleChoices(_, _)
VisibleChoices(k, mem) ==
    IF mem = <<>> THEN <<>>
    ELSE (IF SymVisibility(k, Head(mem)) > 0
          THEN <<[name |-> Head(mem),
                  prompt |-> IF Nodes[FirstNode(Head(mem))].prompt # None
                             THEN Nodes[FirstNode(Head(mem))].prompt[1].text
                             ELSE Head(mem),
                  value |-> Head(mem)]>>
          ELSE <<>>) \o VisibleChoices(k, Tail(mem))

\* selected: the name of the selection, else the first member whose value
\* is "y", else None.
SelectedName(k, c) ==
    IF ChoiceSelection(k, c) # None THEN ChoiceSelection(k, c)
    ELSE LET mem == Choices[c].syms
             on == {i \in 1..Len(mem) : StrValue(k, mem[i]) = Y}
         IN IF on = {} THEN None
            ELSE Some(mem[CHOOSE i \in on : \A j \in on : i <= j])

\* The entry of a menu or a comment (it has no name).
MenuEntry(node) ==
    [type |-> IF Nodes[node].list # <<>> THEN "menu" ELSE "comment",
     prompt |-> Nodes[node].prompt[1].text,
     help |-> None,
     visible |-> TRUE,
     node |-> node]

\* The entry of a symbol.
SymbolEntry(k, node, show_optional) ==
    LET n == Nodes[node].sym IN
    [name |-> EntryName(node),
     type |-> Syms[n].type,
     prompt |-> Nodes[node].prompt[1].text,
     default |-> StrValue(k, n),
     value |-> Some(StrValue(k, n)),
     help |-> None,
     visible |-> \/ ExprValue(k, Nodes[node].dep) > 0
                 \/ (show_optional /\ Contains(EntryName(node), "WANT_")),
     dep_str |-> Nodes[node].dep,
     choices |-> <<>>,
     readonly |-> RevDepValue(k, n) > 0,
     node |-> node]

\* The entry of a choice without the rule that hides a redundant choice.
ChoiceEntry_NoElision(k, node, show_optional) ==
    [name |-> EntryName(node),
     type |-> "choice",
     prompt |-> Nodes[node].prompt[1].text,
     default |-> TriToStr(ChoiceTriValue(k, Nodes[node].ch)),
     value |-> SelectedName(k, Nodes[node].ch),
     help |-> None,
     visible |-> \/ ExprValue(k, Nodes[node].dep) > 0
                 \/ (show_optional /\ Contains(EntryName(node), "WANT_")),
     dep_str |-> Nodes[node].dep,
     choices |-> VisibleChoices(k, Choices[Nodes[node].ch].syms),
     readonly |-> FALSE,
     node |-> node]

\* The entry of a choice.
ChoiceEntry(k, node, show_optional) ==
    LET c == Nodes[node].ch
        visible_choices == VisibleChoices(k, Choices[c].syms)
        selected == SelectedName(k, c)
    IN
    [name |-> EntryName(node),
     type |-> "choice",
     prompt |-> Nodes[node].prompt[1].text,
     default |-> TriToStr(ChoiceTriValue(k, c)),
     value |-> selected,
     help |-> None,
     visible |-> IF Len(visible_choices) = 1 /\ selected = Some(visible_choices[1].name)
                 THEN FALSE
                 ELSE IF Len(visible_choices) = 0 THEN FALSE
                 ELSE \/ ExprValue(k, Nodes[node].dep) > 0
                      \/ (show_optional /\ Contains(EntryName(node), "WANT_")),
     dep_str |-> Nodes[node].dep,
     choices |-> visible_choices,
     readonly |-> FALSE,
     node |-> node]

\* _serialize_node that applies the optional-feature override before it
\* looks for the prompt: a node of an optional symbol that has no prompt is
\* given the prompt of the symbol's first definition.
SerializeNode_OverrideBeforePrompt(k, node, show_optional) ==
    IF IsSymOrChoice(node) /\ IsWantSym(node, show_optional)
       /\ Nodes[node].prompt = None /\ Nodes[node].item = "symbol"
    THEN Some([SymbolEntry(k, FirstNode(Nodes[node].sym), show_optional)
                  EXCEPT !.node = node])
    ELSE IF Nodes[node].prompt = None THEN None
    ELSE IF IsSymOrChoice(node)
         THEN IF ~IsWantSym(node, show_optional) /\ ItemVisibility(k, node) = 0
              THEN None
              ELSE IF Nodes[node].item = "symbol"
                   THEN Some(SymbolEntry(k, node, show_optional))
                   ELSE Some(ChoiceEntry(k, node, show_optional))
         ELSE IF ~IsOptionalMenu(node, show_optional)
                 /\ ExprValue(k, Nodes[node].prompt[1].cond) = 0
              THEN None
              ELSE Some(MenuEntry(node))

\* _serialize_node: None when the node is left out, else its entry. The
\* field node of an entry is the menu node it was made from.
SerializeNode(k, node, show_optional) ==
    IF Nodes[node].prompt = None THEN None
    ELSE IF IsSymOrChoice(node)
         THEN IF ~IsWantSym(node, show_optional) /\ ItemVisibility(k, node) = 0
              THEN None
              ELSE IF Nodes[node].item = "symbol"
                   THEN Some(SymbolEntry(k, node, show_optional))
                   ELSE Some(ChoiceEntry(k, node, show_optional))
         ELSE IF ~IsOptionalMenu(node, show_optional)
                 /\ ExprValue(k, Nodes[node].prompt[1].cond) = 0
              THEN None
              ELSE Some(MenuEntry(node))

\* _parse_menu_item: the entries of the children of a node, in order; an
\* entry has children exactly when its node has a list.
RECURSIVE ParseMenuItem(_, _, _), ParseChain(_, _, _)
ParseChain(k, chain, show_optional) ==
    IF chain = <<>> THEN <<>>
    ELSE LET curr == Head(chain)
             item == SerializeNode(k, curr, show_optional)
         IN (IF item = None THEN <<>>
             ELSE IF Nodes[curr].list # <<>>
                  THEN <<item[1] @@ [children |->
                                       ParseMenuItem(k, curr, show_optional)]>>
                  ELSE <<item[1]>>)
            \o ParseChain(k, Tail(chain), show_optional)

\* _parse_menu_item that walks the sibling chain from its last node to its
\* first.
RECURSIVE Backwards(_)
Backwards(seq) ==
    IF seq = <<>> THEN <<>> ELSE Backwards(Tail(seq)) \o <<Head(seq)>>

ParseMenuItem_Backwards(k, node, show_optional) ==
    ParseChain(k, Backwards(Nodes[node].list), show_optional)

ParseMenuItem(k, node, show_optional) ==
    ParseChain(k, Nodes[node].list, show_optional)

\* What get_menu_tree returns on a loaded session.
MenuTree(k, show_optional) == ParseMenuItem(k, 0, show_optional)

\* Every entry of a tree, at any depth.
RECURSIVE Flatten(_)
Flatten(tree) ==
    IF tree = <<>> THEN <<>>
    ELSE <<Head(tree)>>
         \o (IF "children" \in DOMAIN Head(tree) THEN Flatten(Head(tree).children)
             ELSE <<>>)
         \o Flatten(Tail(tree))

(***************************************************************************)
(* KconfigManager.set_value on a loaded session.                           *)
(***************************************************************************)
\* "__choice_..." names: the value names the symbol to select.
SetValueSyntheticChoice(k, value) ==
    IF SymVisibility(k, value) > 0 THEN SymSetValue(k, value, Y) ELSE k

\* A named symbol, written even when it is not visible.
SetValueSymbol_NoVisibilityCheck(k, name, value) ==
    IF Syms[name].choice # None /\ value \in SymNames
    THEN SymSetValue(k, value, Y)
    ELSE SymSetValue(k, name, value)

\* A named symbol; a value that names a symbol selects that symbol, whether
\* or not the named symbol is a member of a choice.
SetValueSymbol_RedirectsAll(k, name, value) ==
    IF SymVisibility(k, name) = 0 THEN k
    ELSE IF value \in SymNames
         THEN SymSetValue(k, value, Y)
         ELSE SymSetValue(k, name, value)

\* A named symbol.
SetValueSymbol(k, name, value) ==
    IF SymVisibility(k, name) = 0 THEN k
    ELSE IF Syms[name].choice # None /\ value \in SymNames
         THEN SymSetValue(k, value, Y)
         ELSE SymSetValue(k, name, value)

\* A named choice.
SetValueNamedChoice(k, name, value) ==
    LET c == CHOOSE x \in ChoiceIds : Choices[x].name = name IN
    IF ChoiceVisibility(k, c) > 0 /\ value # <<>> /\ value \in SymNames
    THEN SymSetValue(k, value, Y)
    ELSE k

\* set_value that knows the choices only and passes over named symbols.
SetValueBody_SkipsSymbols(k, name, value) ==
    IF StartsWith(name, "__choice_") /\ value # <<>> /\ value \in SymNames
    THEN SetValueSyntheticChoice(k, value)
    ELSE IF name # <<>> /\ name \in NamedChoices THEN SetValueNamedChoice(k, name, value)
    ELSE k

\* set_value that takes a "__node_" name for the name of a choice.
SetValueBody_NodeNamesSelect(k, name, value) ==
    IF (StartsWith(name, "__choice_") \/ StartsWith(name, "__node_"))
       /\ value # <<>> /\ value \in SymNames
    THEN SetValueSyntheticChoice(k, value)
    ELSE IF StartsWith(name, "__node_") THEN k
    ELSE IF name # <<>> /\ name \in SymNames THEN SetValueSymbol(k, name, value)
    ELSE IF name # <<>> /\ name \in NamedChoices THEN SetValueNamedChoice(k, name, value)
    ELSE k

\* set_value after the load check: the branches of lines 225-257 in order.
SetValueBody(k, name, value) ==
    IF StartsWith(name, "__choice_") /\ value # <<>> /\ value \in SymNames
    THEN SetValueSyntheticChoice(k, value)
    ELSE IF StartsWith(name, "__node_") THEN k
    ELSE IF name # <<>> /\ name \in SymNames THEN SetValueSymbol(k, name, value)
    ELSE IF name # <<>> /\ name \in NamedChoices THEN SetValueNamedChoice(k, name, value)
    ELSE k

(***************************************************************************)
(* The sessions and the process around them.  Session s is a               *)
(* KconfigManager made for klipper directory KlipperDir[s]; each session   *)
(* has one caller.  The calls of a session follow each other; the steps of *)
(* _load_kconfig_sync of different sessions interleave, since the          *)
(* synchronous entry points run on their callers' threads.                 *)
(***************************************************************************)
Sessions == {"s1", "s2"}
KlipperDir == [s \in Sessions |-> IF s = "s1" THEN "/klipper1" ELSE "/klipper2"]
Dirs == {KlipperDir[s] : s \in Sessions}
HomeDir == "/home"

\* The profile paths of the model; PriorProfile is a profile of an earlier
\* hardware variant: it holds a CAN bus speed though the interface is off.
OutPath == "out.config"
PriorPath == "prior.config"
MissingPath == "missing.config"
\* A path that exists and that load_config cannot open: a directory.
DirPath == "profiles"
Paths == {OutPath, PriorPath, MissingPath, DirPath}
Directories == {DirPath}

PriorProfile ==
    <<[kind |-> "unset", key |-> ConfigKey(CANIF), val |-> <<>>],
      [kind |-> "set", key |-> ConfigKey(CANSPEED), val |-> <<"5000000">>],
      [kind |-> "set", key |-> ConfigKey(MCU),
       val |-> <<QUOTE, "stm32", QUOTE>>]>>

NoCall == [op |-> "none", config_file |-> "", name |-> <<>>, value |-> <<>>,
           show_optional |-> FALSE]

K(s) == kconf[s][1]

\* The symbols _load_kconfig_sync sets to y after parsing.
ForcedSyms == <<HLCS, LLO>>

RECURSIVE ForceSymbols(_, _)
ForceSymbols(k, names) ==
    IF names = <<>> THEN k
    ELSE ForceSymbols(IF Head(names) \in SymNames
                      THEN StoreUserValue(k, Head(names), 2) ELSE k,
                      Tail(names))

\* Where the parser finds a relative "source" file: in the working
\* directory, else under $srctree; None if it is in neither.
ResolveSource ==
    IF cwd \in Dirs /\ fs[cwd].extras THEN Some(cwd)
    ELSE IF environ.srctree \in Dirs /\ fs[environ.srctree].extras
         THEN Some(environ.srctree)
    ELSE None

\* The calls of the model are bounded in number.
MayCall(s) == pc[s] = "idle" /\ nops["s1"] + nops["s2"] < MaxOps

\* A call begins.
Begin(s, c) ==
    /\ call' = [call EXCEPT ![s] = c]
    /\ entry' = [entry EXCEPT ![s] = [cwd |-> cwd, environ |-> environ,
                                      loaded |-> kconf[s] # None,
                                      extras |-> fs[KlipperDir[s]].extras,
                                      graph |-> IF c.op = "load_kconfig"
                                                THEN kconf[s] ELSE None]]
    /\ nops' = [nops EXCEPT ![s] = @ + 1]

\* Entering _load_kconfig_sync from an entry point.
EnterLoad(s, c) ==
    /\ Begin(s, c)
    /\ pc' = [pc EXCEPT ![s] = "env"]
    /\ ret' = [ret EXCEPT ![s] = "running"]

\* load_kconfig: the load under the session's lock.
LoadKconfig(s, config_file) ==
    /\ MayCall(s)
    /\ ~lock[s]
    /\ lock' = [lock EXCEPT ![s] = TRUE]
    /\ EnterLoad(s, [NoCall EXCEPT !.op = "load_kconfig", !.config_file = config_file])
    /\ UNCHANGED <<kconf, environ, cwd, fs, files, old_cwd>>
    /\ UNCHANGED <<fleetVars, buildVars>>

\* os.environ["SRCTREE"] = os.environ["srctree"] = abs_klipper_dir
LoadSetEnv(s) ==
    /\ pc[s] = "env"
    /\ environ' = [SRCTREE |-> KlipperDir[s], srctree |-> KlipperDir[s]]
    /\ pc' = [pc EXCEPT ![s] = "exists"]
    /\ UNCHANGED <<kconf, lock, cwd, fs, files, call, old_cwd, ret, entry, nops>>
    /\ UNCHANGED <<fleetVars, buildVars>>

\* The call ends: the lock of load_kconfig is released on the way out.
Leave(s, outcome) ==
    /\ pc' = [pc EXCEPT ![s] = "idle"]
    /\ ret' = [ret EXCEPT ![s] = outcome]
    /\ lock' = [lock EXCEPT ![s] = IF call[s].op = "load_kconfig" THEN FALSE ELSE @]
    /\ entry' = [entry EXCEPT ![s].graph = None]

\* if not os.path.exists(self.kconfig_file): raise FileNotFoundError
LoadCheckExists(s) ==
    /\ pc[s] = "exists"
    /\ IF fs[KlipperDir[s]].kconfig
       THEN /\ pc' = [pc EXCEPT ![s] = "chdir"]
            /\ UNCHANGED <<lock, ret, entry>>
       ELSE Leave(s, "FileNotFoundError")
    /\ UNCHANGED <<kconf, environ, cwd, fs, files, call, old_cwd, nops>>
    /\ UNCHANGED <<fleetVars, buildVars>>

\* old_cwd = os.getcwd(); os.chdir(abs_klipper_dir)
LoadChdir(s) ==
    /\ pc[s] = "chdir"
    /\ old_cwd' = [old_cwd EXCEPT ![s] = cwd]
    /\ cwd' = KlipperDir[s]
    /\ pc' = [pc EXCEPT ![s] = "parse"]
    /\ UNCHANGED <<kconf, lock, environ, fs, files, call, ret, entry, nops>>
    /\ UNCHANGED <<fleetVars, buildVars>>

\* A parse step that builds the graph on the first load only and keeps the
\* graph of a loaded session, with its user values, on a later load.
LoadParse_KeepsEdits(s) ==
    /\ pc[s] = "parse"
    /\ kconf' = [kconf EXCEPT ![s] =
          IF @ # None THEN @
          ELSE Some(ForceSymbols(FreshValues(KlipperDir[s], KlipperDir[s]),
                                 ForcedSyms))]
    /\ pc' = [pc EXCEPT ![s] = "profile"]
    /\ UNCHANGED <<lock, environ, cwd, fs, files, call, old_cwd, ret, entry, nops>>
    /\ UNCHANGED <<fleetVars, buildVars>>

\* self.kconf = kconfiglib.Kconfig(...), then the forced symbols. The
\* parser fails on a "source" line whose file it does not find.
LoadParse(s) ==
    /\ pc[s] = "parse"
    /\ IF fs[KlipperDir[s]].sources /\ ResolveSource = None
       THEN /\ ret' = [ret EXCEPT ![s] = "KconfigError"]
            /\ pc' = [pc EXCEPT ![s] = "restore"]
            /\ UNCHANGED kconf
       ELSE /\ kconf' = [kconf EXCEPT ![s] =
                 Some(ForceSymbols(
                     FreshValues(KlipperDir[s],
                                 IF fs[KlipperDir[s]].sources
                                 THEN ResolveSource[1] ELSE KlipperDir[s]),
                     ForcedSyms))]
            /\ pc' = [pc EXCEPT ![s] = "profile"]
            /\ UNCHANGED ret
    /\ UNCHANGED <<lock, environ, cwd, fs, files, call, old_cwd, entry, nops>>
    /\ UNCHANGED <<fleetVars, buildVars>>

\* if config_file and os.path.exists(config_path): load_config(config_path)
\* load_config raises when it cannot open the path; the graph the parse
\* step assigned to self.kconf stays.
LoadProfile(s) ==
    /\ pc[s] = "profile"
    /\ IF call[s].config_file # "" /\ files[call[s].config_file] # None
       THEN IF call[s].config_file \in Directories
            THEN /\ ret' = [ret EXCEPT ![s] = "KconfigIOError"]
                 /\ UNCHANGED kconf
            ELSE /\ kconf' = [kconf EXCEPT ![s] =
                      Some(LoadConfig(K(s), files[call[s].config_file][1]))]
                 /\ UNCHANGED ret
       ELSE UNCHANGED <<kconf, ret>>
    /\ pc' = [pc EXCEPT ![s] = "restore"]
    /\ UNCHANGED <<lock, environ, cwd, fs, files, call, old_cwd, entry, nops>>
    /\ UNCHANGED <<fleetVars, buildVars>>

\* finally: os.chdir(old_cwd); then the exception goes on to the caller,
\* or the entry point that loaded goes on with the loaded graph.
LoadRestore(s) ==
    /\ pc[s] = "restore"
    /\ cwd' = old_cwd[s]
    /\ IF ret[s] # "running"
       THEN /\ Leave(s, ret[s])
            /\ UNCHANGED kconf
       ELSE /\ Leave(s, "ok")
            /\ kconf' = [kconf EXCEPT ![s] =
                  IF call[s].op = "set_value"
                  THEN Some(SetValueBody(K(s), call[s].name, call[s].value))
                  ELSE @]
    /\ UNCHANGED <<environ, fs, files, call, old_cwd, nops>>
    /\ UNCHANGED <<fleetVars, buildVars>>

\* get_menu_tree: loads first if nothing is loaded; returns the tree
\* MenuTree(K(s), show_optional) and changes nothing else.
GetMenuTree(s, show_optional) ==
    /\ MayCall(s)
    /\ IF kconf[s] = None
       THEN EnterLoad(s, [NoCall EXCEPT !.op = "get_menu_tree",
                                        !.show_optional = show_optional])
       ELSE /\ Begin(s, [NoCall EXCEPT !.op = "get_menu_tree",
                                      !.show_optional = show_optional])
            /\ ret' = [ret EXCEPT ![s] = "ok"]
            /\ UNCHANGED pc
    /\ UNCHANGED <<kconf, lock, environ, cwd, fs, files, old_cwd>>
    /\ UNCHANGED <<fleetVars, buildVars>>

\* set_value: loads first if nothing is loaded.
SetValue(s, name, value) ==
    /\ MayCall(s)
    /\ IF kconf[s] = None
       THEN /\ EnterLoad(s, [NoCall EXCEPT !.op = "set_value",
                                           !.name = name, !.value = value])
            /\ UNCHANGED kconf
       ELSE /\ kconf' = [kconf EXCEPT ![s] = Some(SetValueBody(K(s), name, value))]
            /\ Begin(s, [NoCall EXCEPT !.op = "set_value",
                                      !.name = name, !.value = value])
            /\ ret' = [ret EXCEPT ![s] = "ok"]
            /\ UNCHANGED pc
    /\ UNCHANGED <<lock, environ, cwd, fs, files, old_cwd>>
    /\ UNCHANGED <<fleetVars, buildVars>>

\* save_config that writes an empty profile when no graph is loaded.
SaveConfig_WritesUnloaded(s, output_path) ==
    /\ MayCall(s)
    /\ files' = [files EXCEPT ![output_path] =
                    IF kconf[s] # None THEN Some(WriteConfig(K(s))) ELSE Some(<<>>)]
    /\ Begin(s, [NoCall EXCEPT !.op = "save_config", !.config_file = output_path])
    /\ ret' = [ret EXCEPT ![s] = "ok"]
    /\ UNCHANGED <<kconf, lock, environ, cwd, fs, old_cwd, pc>>
    /\ UNCHANGED <<fleetVars, buildVars>>

\* save_config: writes the profile if a graph is loaded, else does nothing.
SaveConfig(s, output_path) ==
    /\ MayCall(s)
    /\ files' = IF kconf[s] # None
                THEN [files EXCEPT ![output_path] = Some(WriteConfig(K(s)))]
                ELSE files
    /\ Begin(s, [NoCall EXCEPT !.op = "save_config", !.config_file = output_path])
    /\ ret' = [ret EXCEPT ![s] = "ok"]
    /\ UNCHANGED <<kconf, lock, environ, cwd, fs, old_cwd, pc>>
    /\ UNCHANGED <<fleetVars, buildVars>>

\* A step of the load a session is in.
LoadStep(s) ==
    \/ LoadSetEnv(s)
    \/ LoadCheckExists(s)
    \/ LoadChdir(s)
    \/ LoadParse(s)
    \/ LoadProfile(s)
    \/ LoadRestore(s)

(***************************************************************************)
(* FleetManager (backend/fleet_manager.py): the device registry kept in    *)
(* fleet.json.  A device is a dictionary: a function from its keys.  Every *)
(* method that writes holds self._lock from before it reads the file until *)
(* after it has replaced it; a thread is "locked" between the two.         *)
(***************************************************************************)
Threads == {"t1", "t2"}
DeviceIds == {"a", "b"}
DeviceNames == {"x", "y"}

\* The device arguments of save_device: without old_id, and with an old_id
\* that is empty or an identifier.
Devices ==
    [id : DeviceIds, name : DeviceNames]
    \cup [id : DeviceIds, name : DeviceNames, old_id : DeviceIds \cup {""}]

\* The version_info arguments: with both keys, and with none.
VersionInfos == {[version |-> "v1", commit |-> "c1"], <<>>}
LiveVersions == {"v2"}

\* time.strftime(...): the time of the call.
Now == "now"

NoFleetCall == [op |-> "none", device |-> <<>>, device_id |-> "",
                version_info |-> <<>>, live_version |-> ""]

\* d.get(key, default), d[key] = val and d.pop(key, None)
Get(d, key, default) == IF key \in DOMAIN d THEN d[key] ELSE default
Put(d, key, val) == [k \in DOMAIN d \cup {key} |-> IF k = key THEN val ELSE d[k]]
Pop(d, key) == [k \in DOMAIN d \ {key} |-> d[k]]

\* The index of the first device with this id in a list, 0 if there is none
\* (the loops over the list stop at the first match).
IndexOf(devices, device_id) ==
    IF \A i \in 1..Len(devices) : devices[i]["id"] # device_id THEN 0
    ELSE CHOOSE i \in 1..Len(devices) :
            /\ devices[i]["id"] = device_id
            /\ \A j \in 1..(i - 1) : devices[j]["id"] # device_id

\* The list at index i replaced by d, or the list with d appended if i = 0.
ReplaceOrAppend(devices, i, d) ==
    IF i # 0 THEN [devices EXCEPT ![i] = d] ELSE Append(devices, d)

\* save_device: the list it writes. An old_id that is absent or empty is
\* not used; the stored copy has no old_id.
SaveDeviceList(devices, device) ==
    ReplaceOrAppend(devices,
                    IndexOf(devices, IF Get(device, "old_id", "") # ""
                                     THEN device["old_id"] ELSE device["id"]),
                    Pop(device, "old_id"))

\* remove_device: the list it writes.
RemoveDeviceList(devices, device_id) ==
    SelectSeq(devices, LAMBDA d : d["id"] # device_id)

\* The list with the device at index i changed by the keys of update; the
\* list itself if i = 0.
UpdateAt(devices, i, last_flashed, flashed_version, flashed_commit) ==
    IF i = 0 THEN devices
    ELSE [devices EXCEPT ![i] =
             Put(Put(Put(@, "last_flashed", last_flashed),
                     "flashed_version", flashed_version),
                 "flashed_commit", flashed_commit)]

\* update_device_version: the list it writes.
UpdateDeviceVersionList(devices, device_id, version_info) ==
    UpdateAt(devices, IndexOf(devices, device_id), Now,
             Get(version_info, "version", "unknown"),
             Get(version_info, "commit", "unknown"))

LiveAt(devices, i, live_version) ==
    IF i = 0 THEN devices
    ELSE [devices EXCEPT ![i] = Put(@, "live_version", live_version)]

\* update_device_live_version: the list it writes.
UpdateDeviceLiveVersionList(devices, device_id, live_version) ==
    LiveAt(devices, IndexOf(devices, device_id), live_version)

FleetInit ==
    /\ fleet_file = <<>>
    /\ fleet_lock = FALSE
    /\ fleet_pc = [t \in Threads |-> "idle"]
    /\ fleet_call = [t \in Threads |-> NoFleetCall]
    /\ fleet = [t \in Threads |-> <<>>]
    /\ fleet_ops = 0

\* with self._lock: ... fleet = json.load(f)
\* A thread enters a method, takes the lock when it is free and reads the
\* file.
FleetEnter(t, c) ==
    /\ fleet_pc[t] = "idle" /\ fleet_ops < MaxOps
    /\ ~fleet_lock
    /\ fleet_lock' = TRUE
    /\ fleet' = [fleet EXCEPT ![t] = fleet_file]
    /\ fleet_pc' = [fleet_pc EXCEPT ![t] = "locked"]
    /\ fleet_call' = [fleet_call EXCEPT ![t] = c]
    /\ fleet_ops' = fleet_ops + 1
    /\ UNCHANGED fleet_file

SaveDevice(t, device) ==
    /\ FleetEnter(t, [NoFleetCall EXCEPT !.op = "save_device", !.device = device])
    /\ UNCHANGED <<kconfigVars, buildVars>>

RemoveDevice(t, device_id) ==
    /\ FleetEnter(t, [NoFleetCall EXCEPT !.op = "remove_device",
                                         !.device_id = device_id])
    /\ UNCHANGED <<kconfigVars, buildVars>>

UpdateDeviceVersion(t, device_id, version_info) ==
    /\ FleetEnter(t, [NoFleetCall EXCEPT !.op = "update_device_version",
                                         !.device_id = device_id,
                                         !.version_info = version_info])
    /\ UNCHANGED <<kconfigVars, buildVars>>

UpdateDeviceLiveVersion(t, device_id, live_version) ==
    /\ FleetEnter(t, [NoFleetCall EXCEPT !.op = "update_device_live_version",
                                         !.device_id = device_id,
                                         !.live_version = live_version])
    /\ UNCHANGED <<kconfigVars, buildVars>>

\* The list the method thread t is in makes of the list it has read.
NewFleet(t) ==
    CASE fleet_call[t].op = "save_device" ->
            SaveDeviceList(fleet[t], fleet_call[t].device)
      [] fleet_call[t].op = "remove_device" ->
            RemoveDeviceList(fleet[t], fleet_call[t].device_id)
      [] fleet_call[t].op = "update_device_version" ->
            UpdateDeviceVersionList(fleet[t], fleet_call[t].device_id,
                                    fleet_call[t].version_info)
      [] OTHER ->
            UpdateDeviceLiveVersionList(fleet[t], fleet_call[t].device_id,
                                        fleet_call[t].live_version)

\* self._write_fleet(fleet), then the lock is released: the file is replaced
\* by the new list in one step (os.replace).
WriteFleet(t) ==
    /\ fleet_pc[t] = "locked"
    /\ fleet_file' = NewFleet(t)
    /\ fleet_lock' = FALSE
    /\ fleet_pc' = [fleet_pc EXCEPT ![t] = "idle"]
    /\ UNCHANGED <<fleet_call, fleet, fleet_ops>>
    /\ UNCHANGED <<kconfigVars, buildVars>>

(***************************************************************************)
(* BuildManager (backend/build_manager.py): run_build.  The tasks that run *)
(* run_build share the klipper directory: its .config and its out          *)
(* directory.  A task can be suspended wherever it awaits or yields; the   *)
(* steps below are the stretches between those points.  A file the build   *)
(* tools write is named by the profile whose configuration went into it.   *)
(***************************************************************************)
Tasks == {"b1", "b2"}
Profiles == {"A", "B"}
\* The config_path arguments: the profiles, and a path that does not exist.
ConfigPaths == Profiles \cup {"missing"}

BuildInit ==
    /\ tmp_config = None
    /\ out = None
    /\ artifacts = [p \in Profiles |-> None]
    /\ last_build_info = [p \in Profiles |-> None]
    /\ build_pc = [b \in Tasks |-> "idle"]
    /\ profile_name = [b \in Tasks |-> "A"]
    /\ compiled = [b \in Tasks |-> None]
    /\ build_ops = 0

\* run_build up to its first yield: shutil.copy(config_path, tmp_config); if
\* the copy raises, the generator reports it and returns.
RunBuild(b, config_path) ==
    /\ build_pc[b] = "idle" /\ build_ops < MaxOps
    /\ build_ops' = build_ops + 1
    /\ compiled' = [compiled EXCEPT ![b] = None]
    /\ IF config_path \in Profiles
       THEN /\ profile_name' = [profile_name EXCEPT ![b] = config_path]
            /\ tmp_config' = Some(config_path)
            /\ build_pc' = [build_pc EXCEPT ![b] = "clean"]
       ELSE UNCHANGED <<profile_name, tmp_config, build_pc>>
    /\ UNCHANGED <<out, artifacts, last_build_info>>
    /\ UNCHANGED <<kconfigVars, fleetVars>>

\* await self._run_command(["make", "clean"]): the out directory is removed;
\* a command that takes too long is killed and run_build returns.
MakeClean(b) ==
    /\ build_pc[b] = "clean"
    /\ \E timed_out \in BOOLEAN :
          IF timed_out
          THEN /\ build_pc' = [build_pc EXCEPT ![b] = "idle"]
               /\ UNCHANGED out
          ELSE /\ build_pc' = [build_pc EXCEPT ![b] = "olddefconfig"]
               /\ out' = None
    /\ UNCHANGED <<tmp_config, artifacts, last_build_info, profile_name,
                   compiled, build_ops>>
    /\ UNCHANGED <<kconfigVars, fleetVars>>

\* await self._run_command(["make", "olddefconfig"]): .config is rewritten
\* from what it holds, so it stays the configuration of the same profile.
MakeOlddefconfig(b) ==
    /\ build_pc[b] = "olddefconfig"
    /\ \E timed_out \in BOOLEAN :
          build_pc' = [build_pc EXCEPT ![b] = IF timed_out THEN "idle" ELSE "make"]
    /\ UNCHANGED <<tmp_config, out, artifacts, last_build_info, profile_name,
                   compiled, build_ops>>
    /\ UNCHANGED <<kconfigVars, fleetVars>>

\* The make process, from create_subprocess_exec to process.wait(): it
\* compiles with the .config it finds; with return code 0 it has written
\* out/klipper.bin, otherwise run_build reports the code and ends.
Make(b) ==
    /\ build_pc[b] = "make"
    /\ compiled' = [compiled EXCEPT ![b] = tmp_config]
    /\ \E returncode \in {0, 2} :
          IF returncode = 0
          THEN /\ out' = tmp_config
               /\ build_pc' = [build_pc EXCEPT ![b] = "version"]
          ELSE /\ UNCHANGED out
               /\ build_pc' = [build_pc EXCEPT ![b] = "idle"]
    /\ UNCHANGED <<tmp_config, artifacts, last_build_info, profile_name, build_ops>>
    /\ UNCHANGED <<kconfigVars, fleetVars>>

\* version_info = await self.get_klipper_version()
GetKlipperVersion(b) ==
    /\ build_pc[b] = "version"
    /\ build_pc' = [build_pc EXCEPT ![b] = "save"]
    /\ UNCHANGED <<tmp_config, out, artifacts, last_build_info, profile_name,
                   compiled, build_ops>>
    /\ UNCHANGED <<kconfigVars, fleetVars>>

\* if os.path.exists(bin_src): shutil.copy(bin_src, <profile_name>.bin);
\* self._last_build_info[profile_name] = {...}
SaveArtifacts(b) ==
    /\ build_pc[b] = "save"
    /\ artifacts' = IF out # None
                    THEN [artifacts EXCEPT ![profile_name[b]] = out]
                    ELSE artifacts
    /\ last_build_info' = [last_build_info EXCEPT ![profile_name[b]] =
                              Some([config |-> compiled[b][1]])]
    /\ build_pc' = [build_pc EXCEPT ![b] = "idle"]
    /\ UNCHANGED <<tmp_config, out, profile_name, compiled, build_ops>>
    /\ UNCHANGED <<kconfigVars, fleetVars>>

(***************************************************************************)
(* Spec: one session on a stock klipper tree, every argument.              *)
(***************************************************************************)
StockTree == [kconfig |-> TRUE, script |-> "none", extras |-> FALSE, sources |-> FALSE]

SyntheticChoiceName == EntryName(2)
SyntheticMenuName ==
    <<"__node_">> \o Nodes[7].prompt[1].text \o <<"_", ToString(Nodes[7].linenr)>>

ArgNames == SymNames \cup NamedChoices
            \cup {SyntheticChoiceName, SyntheticMenuName, <<"UNKNOWN">>, <<>>}
ArgValues == {Y, N, <<>>, <<"9000000">>, BOOTNONE, <<"a", QUOTE, BSLASH>>,
              <<"a", NL, "b">>, AVR, WANTDISP}
ArgConfigFiles == {"", OutPath, PriorPath, MissingPath}

InitCommon ==
    /\ kconf = [s \in Sessions |-> None]
    /\ lock = [s \in Sessions |-> FALSE]
    /\ environ = [SRCTREE |-> "", srctree |-> ""]
    /\ cwd = HomeDir
    /\ files = [p \in Paths |-> IF p = PriorPath THEN Some(PriorProfile)
                               ELSE IF p \in Directories THEN Some(<<>>)
                               ELSE None]
    /\ pc = [s \in Sessions |-> "idle"]
    /\ call = [s \in Sessions |-> NoCall]
    /\ old_cwd = [s \in Sessions |-> HomeDir]
    /\ ret = [s \in Sessions |-> "ok"]
    /\ entry = [s \in Sessions |-> [cwd |-> HomeDir,
                                    environ |-> [SRCTREE |-> "", srctree |-> ""],
                                    loaded |-> FALSE, extras |-> FALSE,
                                    graph |-> None]]
    /\ nops = [s \in Sessions |-> 0]
    /\ FleetInit
    /\ BuildInit

Init ==
    /\ InitCommon
    /\ fs = [d \in Dirs |-> StockTree]

Next ==
    \/ \E config_file \in ArgConfigFiles : LoadKconfig("s1", config_file)
    \/ \E show_optional \in BOOLEAN : GetMenuTree("s1", show_optional)
    \/ \E name \in ArgNames, value \in ArgValues : SetValue("s1", name, value)
    \/ SaveConfig("s1", OutPath)
    \/ LoadStep("s1")

Spec == Init /\ [][Next]_vars

(***************************************************************************)
(* SpecLoad: two sessions, a few arguments; the tree of s1 has any         *)
(* content, the tree of s2 is a tree with its sub-definition file in       *)
(* place.  The coroutine load_kconfig has no await inside the lock, so *)
(* the event loop runs one of them at a time; get_menu_tree and set_value  *)
(* are plain methods and load on the thread of their caller.               *)
(***************************************************************************)
Trees == [kconfig : BOOLEAN, script : {"none", "ok", "fail"},
          extras : BOOLEAN, sources : BOOLEAN]

LoopIdle == \A t \in Sessions : pc[t] = "idle" \/ call[t].op # "load_kconfig"

ExtrasTree == [kconfig |-> TRUE, script |-> "ok", extras |-> TRUE, sources |-> TRUE]

InitLoad ==
    /\ InitCommon
    /\ \E tree \in Trees :
          fs = [d \in Dirs |-> IF d = KlipperDir["s1"] THEN tree ELSE ExtrasTree]

NextLoad ==
    \E s \in Sessions :
        \/ LoopIdle /\ LoadKconfig(s, "")
        \/ GetMenuTree(s, FALSE)
        \/ SetValue(s, CANIF, Y)
        \/ SaveConfig(s, OutPath)
        \/ LoadStep(s)

SpecLoad == InitLoad /\ [][NextLoad]_vars

(***************************************************************************)
(* SpecReload: the sessions and trees of SpecLoad; the calls are loads,    *)
(* without a profile or with the path that cannot be read, and set_value.  *)
(***************************************************************************)
NextReload ==
    \E s \in Sessions :
        \/ \E config_file \in {"", DirPath} : LoopIdle /\ LoadKconfig(s, config_file)
        \/ SetValue(s, CANIF, Y)
        \/ LoadStep(s)

SpecReload == InitLoad /\ [][NextReload]_vars

(***************************************************************************)
(* SpecFleet: two threads call the methods of one FleetManager.            *)
(***************************************************************************)
NextFleet ==
    \E t \in Threads :
        \/ \E device \in Devices : SaveDevice(t, device)
        \/ \E device_id \in DeviceIds : RemoveDevice(t, device_id)
        \/ \E device_id \in DeviceIds, version_info \in VersionInfos :
              UpdateDeviceVersion(t, device_id, version_info)
        \/ \E device_id \in DeviceIds, live_version \in LiveVersions :
              UpdateDeviceLiveVersion(t, device_id, live_version)
        \/ WriteFleet(t)

SpecFleet == Init /\ [][NextFleet]_vars

(***************************************************************************)
(* SpecBuild: two tasks run run_build on one BuildManager, on one event    *)
(* loop: a step of one task runs between two suspension points.            *)
(***************************************************************************)
NextBuild ==
    \E b \in Tasks :
        \/ \E config_path \in ConfigPaths : RunBuild(b, config_path)
        \/ MakeClean(b)
        \/ MakeOlddefconfig(b)
        \/ Make(b)
        \/ GetKlipperVersion(b)
        \/ SaveArtifacts(b)

SpecBuild == Init /\ [][NextBuild]_vars

(***************************************************************************)
(* Properties.                                                             *)
(***************************************************************************)
\* The step in which session s runs the body of set_value on its loaded
\* graph K(s): the call itself, or the end of the load the call began with.
\* The arguments are call'[s].name and call'[s].value.
SetValueStep(s) ==
    \/ /\ pc[s] = "idle" /\ kconf[s] # None
       /\ nops'[s] = nops[s] + 1
       /\ call'[s].op = "set_value"
    \/ /\ pc[s] = "restore" /\ pc'[s] = "idle"
       /\ call[s].op = "set_value" /\ ret[s] = "running"

Idle(s) == pc[s] = "idle"
Loaded(s) == kconf[s] # None

\* C1: set_value(name, value) with name a known symbol whose visibility is
\* zero changes no stored value of the session (user values and user
\* selections), nor any profile file; a save writes WriteConfig of the
\* stored values, so it writes after the call what it would have before.
C1_GhostDirect ==
    [][\A s \in Sessions :
          (/\ SetValueStep(s)
           /\ call'[s].name \in SymNames
           /\ SymVisibility(K(s), call'[s].name) = 0)
          => /\ kconf'[s] = kconf[s]
             /\ files' = files]_vars

\* A set_value of a well-formed value on CANBUS_SPEED has returned while the
\* symbol is invisible and holds the value a prior profile brought in.
C1_Witness ==
    /\ Idle("s1") /\ Loaded("s1") /\ ret["s1"] = "ok"
    /\ call["s1"].op = "set_value"
    /\ call["s1"].name = CANSPEED /\ call["s1"].value = <<"9000000">>
    /\ SymVisibility(K("s1"), CANSPEED) = 0
    /\ K("s1").user[CANSPEED] = Some(<<"5000000">>)

\* C2: no set_value call changes the stored value of a symbol that is
\* invisible when the call is made, whichever argument names the symbol.
C2_GhostAllPaths ==
    [][\A s \in Sessions :
          SetValueStep(s)
          => \A n \in SymNames :
                SymVisibility(K(s), n) = 0
                => kconf'[s][1].user[n] = K(s).user[n]]_vars

\* The entries with name n in a sequence of entries.
Named(entries, n) ==
    {i \in 1..Len(entries) : "name" \in DOMAIN entries[i] /\ entries[i].name = n}

\* The entries of the tree get_menu_tree(show_optional) returns on k.
TreeEntries(k, show_optional) == Flatten(MenuTree(k, show_optional))

\* B has a prompt, one definition, and depends on the bool A, which no
\* default and no select turns on.
DependsOn(a, b) ==
    /\ Syms[a].type = "bool" /\ Syms[a].defaults = <<>>
    /\ Syms[a].rev_dep = {} /\ Syms[a].choice = None
    /\ Len(Syms[b].nodes) = 1
    /\ Nodes[FirstNode(b)].prompt # None
    /\ SymAtom(a) \in Nodes[FirstNode(b)].prompt[1].cond

\* The symbols that depend on A in this way.
Dependents == [a \in SymNames |-> {b \in SymNames : DependsOn(a, b)}]

\* The dependencies of B other than A hold.
OtherDepsMet(k, a, b) ==
    \A atom \in Nodes[FirstNode(b)].prompt[1].cond \ {SymAtom(a)} :
        AtomValue(k, atom) = 2

\* The default the definition declares for a symbol.
DeclaredDefault(b) ==
    IF Syms[b].defaults # <<>> THEN Syms[b].defaults[1].val
    ELSE IF Syms[b].type = "bool" THEN N ELSE <<>>

\* B is in the tree of k, with its declared default as value.
ShownWithDefault(k, b) ==
    LET entries == TreeEntries(k, FALSE) IN
    \E i \in Named(entries, b) : entries[i].value = Some(DeclaredDefault(b))

\* C3: when A is visible and off and B, which depends on A, has its other
\* dependencies met and holds no stored value, the tree leaves B out; after
\* set_value(A, "y") the visibility of B is positive and the tree holds B
\* with its declared default value.
C3_DependencyPropagation ==
    [][\A s \in Sessions :
          (/\ SetValueStep(s) /\ call'[s].name \in SymNames /\ call'[s].value = Y
           /\ Dependents[call'[s].name] # {}
           /\ SymVisibility(K(s), call'[s].name) > 0
           /\ TriValue(K(s), call'[s].name) = 0)
          => \A before \in {TreeEntries(K(s), FALSE)},
                after \in {TreeEntries(kconf'[s][1], FALSE)} :
                \A b \in Dependents[call'[s].name] :
                   (/\ OtherDepsMet(K(s), call'[s].name, b)
                    /\ K(s).user[b] = None)
                   => /\ Named(before, b) = {}
                      /\ SymVisibility(kconf'[s][1], b) > 0
                      /\ \E i \in Named(after, b) :
                            after[i].value = Some(DeclaredDefault(b))]_vars

\* set_value("CANBUS_INTERFACE", "y") as the first call on a session has
\* returned, and CANBUS_SPEED is in the tree with the value 1000000.
C3_Witness ==
    /\ Idle("s1") /\ Loaded("s1") /\ nops["s1"] = 1
    /\ call["s1"].op = "set_value"
    /\ call["s1"].name = CANIF /\ call["s1"].value = Y
    /\ ShownWithDefault(K("s1"), CANSPEED)

\* What a profile says of a key: None if no line has it, else the value
\* of its last line, read by the conventions of the format ("is not set"
\* is n, a quoted value is the string between the quotes, unescaped).
RECURSIVE ProfileValue(_, _)
ProfileValue(lines, key) ==
    IF lines = <<>> THEN None
    ELSE LET line == lines[Len(lines)] IN
         IF line.key # key THEN ProfileValue(SubSeq(lines, 1, Len(lines) - 1), key)
         ELSE IF line.kind = "unset" THEN Some(N)
         ELSE IF IsStringLiteral(line.val)
              THEN Some(Unescape(StringBody(Tail(line.val))))
              ELSE Some(line.val)

\* The values a symbol's type accepts, among the arguments of the model.
Accepted(n) ==
    CASE Syms[n].type = "bool" -> BoolStrs
      [] Syms[n].type = "int" -> {v \in ArgValues : IsBaseN(v)}
      [] OTHER -> ArgValues

\* The values of a session loaded from the definition and a profile.
LoadedFrom(k, lines) ==
    LoadConfig(ForceSymbols(FreshValues(k.root, k.inc), ForcedSyms), lines)

\* What follows a set_value(n, v) that left the values k1: a save writes a
\* profile that maps the key of n to v, and a load with that profile gives
\* n the value v.
RoundTrip(k1, n, v) ==
    \A profile \in {WriteConfig(k1)} :
        /\ ProfileValue(profile, ConfigKey(n)) = Some(v)
        /\ StrValue(LoadedFrom(k1, profile), n) = v

\* set_value(n, v) has returned to session s, with n a symbol that is not a
\* member of a choice and is visible, and v a value the type of n accepts.
\* (The visibility of a symbol does not depend on the symbol's own value,
\* so n is visible after the call exactly if it was before.)
HasSet(s) ==
    /\ Idle(s) /\ Loaded(s) /\ call[s].op = "set_value" /\ ret[s] = "ok"
    /\ call[s].name \in SymNames
    /\ Syms[call[s].name].choice = None
    /\ SymVisibility(K(s), call[s].name) > 0
    /\ call[s].value \in Accepted(call[s].name)

\* C4 as claimed: the round trip holds after every set_value(n, v) with n
\* a visible symbol that is not a member of a choice and v a value its type
\* accepts.
C4_RoundTrip_AsClaimed ==
    \A s \in Sessions :
        HasSet(s) => RoundTrip(K(s), call[s].name, call[s].value)

NoLineBreak(v) == \A i \in 1..Len(v) : v[i] # NL

\* C4, amended: the round trip holds after every set_value(n, v) with n a
\* visible symbol that is not a member of a choice and that no select of
\* another symbol forces, and v a value its type accepts that holds no line
\* break.
C4_RoundTrip ==
    \A s \in Sessions :
        (/\ HasSet(s)
         /\ RevDepValue(K(s), call[s].name) = 0
         /\ NoLineBreak(call[s].value))
        => RoundTrip(K(s), call[s].name, call[s].value)

\* A session holds a string with a quote and a backslash in MCU, set by
\* set_value, and the profile it saved holds it too.
C4_Witness ==
    /\ Idle("s1") /\ Loaded("s1")
    /\ K("s1").user[MCU] = Some(<<"a", QUOTE, BSLASH>>)
    /\ files[OutPath] # None
    /\ ProfileValue(files[OutPath][1], ConfigKey(MCU)) = Some(<<"a", QUOTE, BSLASH>>)

\* The nodes the entries of a tree were made from.
EntryNodes(entries) == {entries[i].node : i \in 1..Len(entries)}

\* get_menu_tree has returned to session s the tree of its graph K(s), which
\* the call leaves as it is.
Returned(s) ==
    Idle(s) /\ Loaded(s) /\ call[s].op = "get_menu_tree" /\ ret[s] = "ok"

\* C5: whenever get_menu_tree has returned, with either value of
\* show_optional, no entry of the tree is made from a node without prompt
\* text, whatever the node holds and whatever its name.
C5_NoPromptlessNode ==
    \A s \in Sessions :
        Returned(s)
        => \A shown \in {EntryNodes(TreeEntries(K(s), call[s].show_optional))} :
              \A node \in NodeIds : Nodes[node].prompt = None => node \notin shown

\* get_menu_tree(show_optional=True) has returned on a session where the
\* prompt-less HAVE_LIMITED_CODE_SIZE has the value y and WANT_DISPLAYS,
\* which has a prompt-less second definition, is visible: the tree holds
\* WANT_DISPLAYS once and HAVE_LIMITED_CODE_SIZE not at all.
C5_Witness ==
    /\ Idle("s1") /\ Loaded("s1") /\ ret["s1"] = "ok"
    /\ call["s1"].op = "get_menu_tree" /\ call["s1"].show_optional
    /\ TriValue(K("s1"), HLCS) = 2
    /\ Cardinality(Named(TreeEntries(K("s1"), TRUE), WANTDISP)) = 1
    /\ Named(TreeEntries(K("s1"), TRUE), HLCS) = {}

\* The name follows the optional-feature convention.
WantName(name) ==
    \/ (Len(name) >= 1 /\ name[1] = "WANT_")
    \/ (Len(name) >= 2 /\ name[1] = "CONFIG_" /\ name[2] = "WANT_")

\* The nodes below a node.
RECURSIVE Below(_)
Below(node) ==
    UNION {{Nodes[node].list[i]} \cup Below(Nodes[node].list[i]) :
              i \in 1..Len(Nodes[node].list)}

\* C6: whenever get_menu_tree has returned, a symbol or choice whose
\* visibility is zero and which no optional-feature override covers
\* (show_optional false, or a name outside the convention) has no entry in
\* the tree, nor has any node below one of its nodes.
C6_InvisibleAbsent ==
    \A s \in Sessions :
        Returned(s)
        => \A shown \in {EntryNodes(TreeEntries(K(s), call[s].show_optional))} :
              \A node \in NodeIds :
                 (/\ IsSymOrChoice(node)
                  /\ ItemVisibility(K(s), node) = 0
                  /\ ~(call[s].show_optional /\ WantName(ItemName(node))))
                 => shown \cap ({node} \cup Below(node)) = {}

\* get_menu_tree(show_optional=True) has returned while CANBUS_INTERFACE is
\* invisible: it is not in the tree, nor is WANT_CANBUS_BRIDGE below it,
\* while the invisible WANT_DISPLAYS is there by the override.
C6_Witness ==
    /\ Idle("s1") /\ Loaded("s1") /\ ret["s1"] = "ok"
    /\ call["s1"].op = "get_menu_tree" /\ call["s1"].show_optional
    /\ SymVisibility(K("s1"), CANIF) = 0
    /\ SymVisibility(K("s1"), WANTDISP) = 0
    /\ Named(TreeEntries(K("s1"), TRUE), CANIF) = {}
    /\ Named(TreeEntries(K("s1"), TRUE), WANTBRIDGE) = {}
    /\ Named(TreeEntries(K("s1"), TRUE), WANTDISP) # {}

\* Session s makes a call of one of the operations ops.
Calls(s, ops) == nops'[s] = nops[s] + 1 /\ call'[s].op \in ops

\* The call of session s ends in this step: it returns or raises.
Ends(s) ==
    \/ nops'[s] = nops[s] + 1 /\ pc'[s] = "idle"
    \/ pc[s] # "idle" /\ pc'[s] = "idle"

C8_ScopedGlobalState ==
    \A s \in Sessions :
        (Idle(s) /\ call[s].op = "load_kconfig")
        => /\ cwd = entry[s].cwd
           /\ environ = entry[s].environ

\* Session s is in the section of its load that has changed the environment
\* or the working directory and has not yet restored the latter.
InSection(s) == pc[s] \in {"exists", "chdir", "parse", "profile", "restore"}

\* C9: at most one load is in its section at a time, whatever entry point
\* began it, and a load parses with its own directory and environment in
\* effect.
C9_GlobalLoadSerialization ==
    /\ Cardinality({s \in Sessions : InSection(s)}) <= 1
    /\ \A s \in Sessions :
          pc[s] = "parse" => /\ cwd = KlipperDir[s]
                             /\ environ.srctree = KlipperDir[s]
                             /\ environ.SRCTREE = KlipperDir[s]

\* C10: a load_kconfig on a tree that has the hook script, a failing one,
\* and had no sub-definition file when the call was made succeeds, the
\* session is loaded and the sub-definition file exists afterwards.
C10_HookFailureDegraded ==
    \A s \in Sessions :
        (/\ Idle(s) /\ call[s].op = "load_kconfig"
         /\ fs[KlipperDir[s]].kconfig
         /\ fs[KlipperDir[s]].script = "fail"
         /\ ~entry[s].extras)
        => /\ ret[s] = "ok"
           /\ Loaded(s)
           /\ fs[KlipperDir[s]].extras

\* C11: when a load reaches the parser, the hook has run exactly when the
\* tree has the hook script and had no sub-definition file at the call: a
\* script that works (it writes the sub-definition file) has left the file
\* in place, and with no script, or with the file already there, the tree
\* is as it was at the call.
C11_HookBeforeParse ==
    \A s \in Sessions :
        (pc[s] = "parse" /\ fs[KlipperDir[s]].script \in {"none", "ok"})
        => fs[KlipperDir[s]].extras
              = (entry[s].extras \/ fs[KlipperDir[s]].script = "ok")

\* The nodes a node lies below, the top node excepted.
Ancestors(node) == {m \in NodeIds \ {0} : node \in Below(m)}

\* The members of choice c whose visibility is positive.
VisibleMembers(k, c) ==
    {Choices[c].syms[i] : i \in {j \in 1..Len(Choices[c].syms) :
                                    SymVisibility(k, Choices[c].syms[j]) > 0}}

\* The included choice nodes of a returned tree: the node has a prompt, the
\* choice is visible and the nodes it lies below have entries.
IncludedChoiceNodes(k, shown) ==
    {node \in NodeIds : /\ Nodes[node].item = "choice"
                        /\ Nodes[node].prompt # None
                        /\ ChoiceVisibility(k, Nodes[node].ch) > 0
                        /\ Ancestors(node) \subseteq shown}

\* C12: whenever get_menu_tree has returned, every included choice node has
\* exactly one entry in the tree; with one visible member that is the
\* selection the entry has visible = FALSE and lists that member alone; with
\* no visible member it has visible = FALSE; with two or more visible
\* members its flag is the one its dependency (or the override) gives.
C12_ChoiceElision ==
    \A s \in Sessions :
        Returned(s)
        => \A entries \in {TreeEntries(K(s), call[s].show_optional)} :
              \A node \in IncludedChoiceNodes(K(s), EntryNodes(entries)) :
                 \A vis \in {VisibleMembers(K(s), Nodes[node].ch)} :
                    \A at \in {{i \in 1..Len(entries) : entries[i].node = node}} :
                       /\ Cardinality(at) = 1
                       /\ \A i \in at :
                             /\ entries[i].type = "choice"
                             /\ (/\ Cardinality(vis) = 1
                                 /\ ChoiceSelection(K(s), Nodes[node].ch) # None
                                 /\ ChoiceSelection(K(s), Nodes[node].ch)[1] \in vis)
                                => /\ ~entries[i].visible
                                   /\ Len(entries[i].choices) = 1
                                   /\ entries[i].choices[1].name \in vis
                             /\ Cardinality(vis) = 0
                                => ~entries[i].visible /\ entries[i].choices = <<>>
                             /\ Cardinality(vis) >= 2
                                => /\ entries[i].visible
                                      = (\/ ExprValue(K(s), Nodes[node].dep) > 0
                                         \/ (call[s].show_optional
                                             /\ Contains(entries[i].name, "WANT_")))
                                   /\ Len(entries[i].choices) = Cardinality(vis)

\* get_menu_tree has returned on a session where MACH_AVR is selected: the
\* bootloader choice has the one visible member BOOT_NONE, which is its
\* selection, and its entry is in the tree with visible = FALSE and that
\* member listed, while the architecture choice shows two members.
C12_Witness ==
    /\ Returned("s1")
    /\ VisibleMembers(K("s1"), "boot") = {BOOTNONE}
    /\ ChoiceSelection(K("s1"), "boot") = Some(BOOTNONE)
    /\ Cardinality(VisibleMembers(K("s1"), "arch")) = 2
    /\ \E i \in Named(TreeEntries(K("s1"), call["s1"].show_optional), BOOTLOADER) :
          LET e == TreeEntries(K("s1"), call["s1"].show_optional)[i] IN
          /\ ~e.visible
          /\ Len(e.choices) = 1 /\ e.choices[1].name = BOOTNONE

\* The graph a first load of the definition of session s gives, with the
\* profile at path config_file when one is named and exists.
FirstLoad(s, config_file) ==
    LET fresh == ForceSymbols(FreshValues(KlipperDir[s], KlipperDir[s]), ForcedSyms) IN
    IF config_file # "" /\ files[config_file] # None
    THEN LoadConfig(fresh, files[config_file][1])
    ELSE fresh

\* load_kconfig has returned with success on a session that was loaded
\* when the call was made.
Reloaded(s) ==
    /\ Idle(s) /\ Loaded(s) /\ call[s].op = "load_kconfig" /\ ret[s] = "ok"
    /\ entry[s].loaded

\* C13: when a load on a loaded session has returned with success, the trees
\* get_menu_tree returns (with either value of show_optional), the profile
\* save writes and the stored values of the session are those of a first
\* load of the same definition with the same prior profile.
C13_ReloadDiscardsEdits ==
    \A s \in Sessions :
        Reloaded(s)
        => \A first \in {FirstLoad(s, call[s].config_file)} :
              /\ \A show_optional \in BOOLEAN :
                    MenuTree(K(s), show_optional) = MenuTree(first, show_optional)
              /\ WriteConfig(K(s)) = WriteConfig(first)
              /\ K(s).user = first.user
              /\ K(s).usel = first.usel

\* A session set MCU to a string, saved, and loaded again without a prior
\* profile: the saved profile holds the edit, the session holds the default.
C13_Witness ==
    /\ Reloaded("s1") /\ call["s1"].config_file = ""
    /\ files[OutPath] # None
    /\ ProfileValue(files[OutPath][1], ConfigKey(MCU)) = Some(<<"a", QUOTE, BSLASH>>)
    /\ K("s1").user[MCU] = None
    /\ StrValue(K("s1"), MCU) = DeclaredDefault(MCU)

\* The name is no symbol, no named choice and has not the form of a
\* synthetic choice identifier.
Inapplicable(name) ==
    /\ name \notin SymNames
    /\ name \notin NamedChoices
    /\ ~StartsWith(name, "__choice_")

\* C14: set_value with a name that is no symbol, no named choice and no
\* synthetic choice identifier (a synthetic menu identifier, an unknown
\* name, the empty name), with any value, returns without error and leaves
\* the stored values of the session and the profile files as they were.
C14_PermissiveNoOp ==
    [][\A s \in Sessions :
          (SetValueStep(s) /\ Inapplicable(call'[s].name))
          => /\ kconf'[s] = kconf[s]
             /\ ret'[s] = "ok"
             /\ files' = files]_vars

\* set_value has returned for the identifier of the "Communication
\* interface" menu with the name of a visible symbol as value: nothing is
\* stored for that symbol.
C14_Witness ==
    /\ Idle("s1") /\ Loaded("s1") /\ ret["s1"] = "ok"
    /\ call["s1"].op = "set_value"
    /\ call["s1"].name = SyntheticMenuName /\ call["s1"].value = WANTDISP
    /\ SymVisibility(K("s1"), WANTDISP) > 0
    /\ K("s1").user[WANTDISP] = None

\* The choices whose entry carries the name: the synthetic name of an
\* anonymous choice or the name of a named one.
ChoiceOf(name) == {c \in ChoiceIds : EntryName(Choices[c].nodes[1]) = name}

\* C15: a set_value whose name is a choice identifier (of the form
\* "__choice_..." or a named choice) changes stored values only if the
\* value names a visible member of that choice and the choice is visible.
C15_ChoiceIdentifier ==
    [][\A s \in Sessions :
          (/\ SetValueStep(s)
           /\ \/ StartsWith(call'[s].name, "__choice_")
              \/ call'[s].name \in NamedChoices
           /\ kconf'[s] # kconf[s])
          => \E c \in ChoiceOf(call'[s].name) :
                /\ ChoiceVisibility(K(s), c) > 0
                /\ call'[s].value \in VisibleMembers(K(s), c)]_vars

\* The members of choice c.
Members(c) == {Choices[c].syms[i] : i \in 1..Len(Choices[c].syms)}

\* C16: a set_value whose name is a visible symbol that is a member of a
\* choice selects the symbol the value names when the value names another
\* member of the same choice; with a value that names no member of that
\* choice it assigns the value to the named symbol and writes no other
\* symbol.
C16_ChoiceMemberRedirect ==
    [][\A s \in Sessions :
          (/\ SetValueStep(s)
           /\ call'[s].name \in SymNames
           /\ Syms[call'[s].name].choice # None
           /\ SymVisibility(K(s), call'[s].name) > 0)
          => \A mem \in {Members(Syms[call'[s].name].choice[1])} :
                /\ call'[s].value \in mem \ {call'[s].name}
                   => kconf'[s] = Some(SymSetValue(K(s), call'[s].value, Y))
                /\ call'[s].value \notin mem
                   => kconf'[s] = Some(SymSetValue(K(s), call'[s].name,
                                                  call'[s].value))]_vars

\* The nodes the optional-feature override is about: symbol nodes with a
\* prompt whose name follows the convention, and menus whose prompt holds
\* the group name.
WantNodes ==
    {node \in NodeIds \ {0} : /\ Nodes[node].item = "symbol"
                              /\ Nodes[node].prompt # None
                              /\ WantName(Nodes[node].sym)}
OptionalMenus ==
    {node \in NodeIds \ {0} : /\ ~IsSymOrChoice(node)
                              /\ Nodes[node].prompt # None
                              /\ Contains(Nodes[node].prompt[1].text,
                                          "Optional features")}

\* The base visibility decision of a node: the visibility of its symbol or
\* choice, the prompt condition of a menu or comment.
BaseVisible(k, node) ==
    IF IsSymOrChoice(node) THEN ItemVisibility(k, node) > 0
    ELSE ExprValue(k, Nodes[node].prompt[1].cond) > 0

\* The entries of a tree made from a node.
EntriesAt(entries, node) == {i \in 1..Len(entries) : entries[i].node = node}

\* C17 as claimed: when get_menu_tree has returned with show_optional set,
\* every node the override is about has an entry with visible = TRUE; with
\* show_optional unset it has an entry exactly when its base visibility is
\* positive.
C17_OptionalOverride_AsClaimed ==
    \A s \in Sessions :
        Returned(s)
        => \A entries \in {TreeEntries(K(s), call[s].show_optional)} :
              \A node \in WantNodes \cup OptionalMenus :
                 IF call[s].show_optional
                 THEN /\ EntriesAt(entries, node) # {}
                      /\ \A i \in EntriesAt(entries, node) : entries[i].visible
                 ELSE (EntriesAt(entries, node) # {}) = BaseVisible(K(s), node)

\* C17: when get_menu_tree has returned with show_optional set, every node
\* the override is about whose enclosing nodes have entries has an entry
\* with visible = TRUE, whatever its base visibility; with show_optional
\* unset it has an entry exactly when its base visibility is positive and
\* its enclosing nodes have entries, and the flag of a symbol is then the
\* value of the node's own dependency, that of a menu TRUE.
C17_OptionalOverride ==
    \A s \in Sessions :
        Returned(s)
        => \A entries \in {TreeEntries(K(s), call[s].show_optional)} :
              \A node \in WantNodes \cup OptionalMenus :
                 \A at \in {EntriesAt(entries, node)} :
                    \A enclosed \in {Ancestors(node) \subseteq EntryNodes(entries)} :
                       IF call[s].show_optional
                       THEN /\ (at # {}) = enclosed
                            /\ \A i \in at : entries[i].visible
                       ELSE /\ (at # {}) = (enclosed /\ BaseVisible(K(s), node))
                            /\ \A i \in at :
                                  entries[i].visible
                                     = (IsSymOrChoice(node)
                                        => ExprValue(K(s), Nodes[node].dep) > 0)

\* get_menu_tree(show_optional=True) has returned while the "Optional
\* features" menu has a false prompt condition and WANT_DISPLAYS in it is
\* invisible: both have entries with visible = TRUE, and WANT_CANBUS_BRIDGE,
\* below the excluded CANBUS_INTERFACE, has none.
C17_Witness ==
    /\ Returned("s1") /\ call["s1"].show_optional
    /\ ~BaseVisible(K("s1"), 11) /\ ~BaseVisible(K("s1"), 12)
    /\ \A entries \in {TreeEntries(K("s1"), TRUE)} :
          /\ \E i \in EntriesAt(entries, 11) : entries[i].visible
          /\ \E i \in EntriesAt(entries, 12) : entries[i].visible
          /\ EntriesAt(entries, 14) = {}

\* An override covers the node: show_optional is set and the name of the
\* symbol or choice holds "WANT_", or the prompt of the menu holds the group
\* name.
Overridden(node, show_optional) ==
    /\ show_optional
    /\ IF IsSymOrChoice(node) THEN Contains(EntryName(node), "WANT_")
       ELSE Contains(Nodes[node].prompt[1].text, "Optional features")

\* The rule that hides a redundant choice applies to the node.
Elided(k, node) ==
    Nodes[node].item = "choice" /\ Cardinality(VisibleMembers(k, Nodes[node].ch)) < 2

\* C18: whenever get_menu_tree has returned, every entry made from a node
\* that no override covers and that is no elided choice has visible = TRUE,
\* the base visibility decision that admitted the node.
C18_FlagMatchesInclusion ==
    \A s \in Sessions :
        Returned(s)
        => \A entries \in {TreeEntries(K(s), call[s].show_optional)} :
              \A i \in 1..Len(entries) :
                 (/\ ~Overridden(entries[i].node, call[s].show_optional)
                  /\ ~Elided(K(s), entries[i].node))
                 => /\ BaseVisible(K(s), entries[i].node)
                    /\ entries[i].visible

\* The synthetic key of a node: prefix, prompt text and source line.
SyntheticKey(prefix, node) ==
    <<prefix>> \o Nodes[node].prompt[1].text \o <<"_", ToString(Nodes[node].linenr)>>

\* The name the claim gives the entry of a node.
ClaimedName(node) ==
    IF IsSymOrChoice(node) /\ ItemName(node) # <<>> THEN ItemName(node)
    ELSE IF Nodes[node].item = "choice" THEN SyntheticKey("__choice_", node)
    ELSE SyntheticKey("__node_", node)

\* C19: whenever get_menu_tree has returned, every entry of the tree has a
\* name: the identifier of its symbol or named choice, else the synthetic
\* key of its node, with "__choice_" for a choice and "__node_" for a menu or
\* a comment.
C19_EveryNodeNamed ==
    \A s \in Sessions :
        Returned(s)
        => \A entries \in {TreeEntries(K(s), call[s].show_optional)} :
              \A i \in 1..Len(entries) :
                 /\ "name" \in DOMAIN entries[i]
                 /\ entries[i].name = ClaimedName(entries[i].node)

\* C20: the entry of a symbol has readonly = TRUE exactly when the reverse
\* dependency of the symbol is positive, and a set_value on a symbol whose
\* reverse dependency is positive leaves the stored value of the symbol as
\* it was.
C20_ReadOnly ==
    [][\A s \in Sessions :
          SetValueStep(s)
          => /\ \A entries \in {TreeEntries(K(s), FALSE)} :
                   \A i \in 1..Len(entries) :
                      Nodes[entries[i].node].item = "symbol"
                      => entries[i].readonly
                            = (RevDepValue(K(s), Nodes[entries[i].node].sym) > 0)
             /\ (/\ call'[s].name \in SymNames
                 /\ RevDepValue(K(s), call'[s].name) > 0)
                => kconf'[s][1].user[call'[s].name] = K(s).user[call'[s].name]]_vars

\* The nodes the entries of one children list were made from, in the order
\* of the list.
LevelNodes(level) == [i \in 1..Len(level) |-> level[i].node]

\* sub holds some of the elements of chain, in the order of chain.
RECURSIVE IsSubsequence(_, _)
IsSubsequence(sub, chain) ==
    IF sub = <<>> THEN TRUE
    ELSE IF chain = <<>> THEN FALSE
    ELSE IF Head(sub) = Head(chain) THEN IsSubsequence(Tail(sub), Tail(chain))
    ELSE IsSubsequence(sub, Tail(chain))

NoDuplicate(seq) == \A i, j \in 1..Len(seq) : seq[i] = seq[j] => i = j

\* The list level, made for the node parent, keeps the order of the sibling
\* chain below parent, and so does every children list below it; an entry
\* with a children field is made from a node that has a chain below it.
RECURSIVE OrderKept(_, _)
OrderKept(parent, level) ==
    /\ IsSubsequence(LevelNodes(level), Nodes[parent].list)
    /\ NoDuplicate(LevelNodes(level))
    /\ \A i \in 1..Len(level) :
          "children" \in DOMAIN level[i]
          => /\ Nodes[level[i].node].list # <<>>
             /\ OrderKept(level[i].node, level[i].children)

\* C21: whenever get_menu_tree has returned, with either value of
\* show_optional, every children list of the tree (the top list included)
\* is a subsequence of the sibling chain of the node it was made for, in
\* the order of definition and without duplicates, and only an entry whose
\* node has a chain below it has a children field.
C21_OrderPreserved ==
    \A s \in Sessions :
        Returned(s) => OrderKept(0, MenuTree(K(s), call[s].show_optional))

\* get_menu_tree has returned a tree whose top list leaves out some nodes of
\* the top chain and keeps several, and in which an entry made from a symbol
\* (CANBUS_INTERFACE, whose dependents the engine puts below it) has a
\* children list that leaves out one of the two nodes below the symbol.
C21_Witness ==
    /\ Returned("s1")
    /\ \E tree \in {MenuTree(K("s1"), call["s1"].show_optional)} :
          /\ Len(tree) > 2 /\ Len(tree) < Len(Nodes[0].list)
          /\ \E i \in 1..Len(tree) :
                /\ "children" \in DOMAIN tree[i]
                /\ \E j \in 1..Len(tree[i].children) :
                      /\ Nodes[tree[i].children[j].node].item = "symbol"
                      /\ "children" \in DOMAIN tree[i].children[j]
                      /\ Len(tree[i].children[j].children) = 1
                      /\ Len(Nodes[tree[i].children[j].node].list) = 2

\* get_menu_tree on k, with some value of show_optional, returns an entry of
\* the symbol n that has visible = TRUE and readonly = FALSE.
Editable(k, n) ==
    \E show_optional \in BOOLEAN :
       \E entries \in {TreeEntries(k, show_optional)} :
          \E i \in 1..Len(entries) :
             /\ Nodes[entries[i].node].item = "symbol"
             /\ Nodes[entries[i].node].sym = n
             /\ entries[i].visible /\ ~entries[i].readonly

\* What the graph holds as the user value of n once it has taken the string
\* v: the ordinal for a bool, the string itself otherwise.
StoredForm(n, v) == IF Syms[n].type = "bool" THEN StrToTri(v) ELSE v

\* C22: in every state of a loaded session, a symbol that get_menu_tree
\* presents (with either value of show_optional) with visible = TRUE and
\* readonly = FALSE is accepted by set_value: a set_value on its name with a
\* value its type accepts makes that value the stored value of the symbol.
C22_EditableIsAccepted ==
    [][\A s \in Sessions :
          (/\ SetValueStep(s)
           /\ call'[s].name \in SymNames
           /\ call'[s].value \in Accepted(call'[s].name)
           /\ Editable(K(s), call'[s].name))
          => kconf'[s][1].user[call'[s].name]
                = Some(StoredForm(call'[s].name, call'[s].value))]_vars

\* A load_kconfig that session s began with a graph loaded ends in this
\* step with an exception.
LoadFails(s) ==
    /\ call[s].op = "load_kconfig" /\ entry[s].loaded
    /\ pc[s] # "idle" /\ pc'[s] = "idle"
    /\ ret'[s] # "ok"

\* C23: when a load_kconfig on a loaded session fails, at whatever step
\* (definition not found, parse error, prior profile that cannot be read),
\* the session holds the graph and the stored values it held when the call
\* was made.
C23_LoadAtomic ==
    [][\A s \in Sessions : LoadFails(s) => kconf'[s] = entry[s].graph]_vars

\* C24: starting from an empty fleet, after any calls of save_device (add,
\* update, rename through old_id), remove_device, update_device_version and
\* update_device_live_version, from any threads, no two devices of the
\* stored list have the same id and no stored device has an old_id key.
C24_UniqueIds ==
    /\ \A i, j \in 1..Len(fleet_file) :
          fleet_file[i]["id"] = fleet_file[j]["id"] => i = j
    /\ \A i \in 1..Len(fleet_file) : "old_id" \notin DOMAIN fleet_file[i]

\* C25: the artifact stored under a profile's name was written by a compile
\* that used the configuration of that profile, and so was the compile the
\* build info stored under the name reports, however the run_build tasks
\* interleave.
C25_BuildIsolation ==
    \A p \in Profiles :
        /\ artifacts[p] # None => artifacts[p] = Some(p)
        /\ last_build_info[p] # None => last_build_info[p][1].config = p

====
